---- MODULE Spec2Model ----
(***************************************************************************)
(* Model of the sync job engine of lucidlink-nas-sync                      *)
(* (webapp/services/sync_manager.py): the SyncManager's job lifecycle,     *)
(* its run task, its worker tasks and their rsync child processes, the    *)
(* stop protocol, and the job store (save_jobs / load_jobs).               *)
(*                                                                         *)
(* asyncio is cooperative: a task runs without interruption from one       *)
(* await to the next.  Every action below is one such segment of one task, *)
(* and the interleaving of the actions is the interleaving of the tasks at *)
(* their await points.                                                     *)
(***************************************************************************)
EXTENDS Integers, Sequences, FiniteSets, TLC

\* ------------------------------------------------------------------ bounds
\* run tasks (accepted start_job calls) the state has room for
MaxRuns == 2
\* accepted start_job calls in one behaviour of Spec
MaxStarts == 1
\* stop_job calls in one behaviour
MaxStops == 1
\* output lines (progress or error) one worker parses in one run
MaxLines == 1

\* the largest declared concurrency (SyncJob.parallel_jobs) of the job
MaxParallel == 2

Runs == 1..MaxRuns
Workers == 1..MaxParallel

\* (name, files, bytes) tuples of _get_top_level_items; the name is left out
BigItem == [files |-> 2, bytes |-> 2]
SmallItem == [files |-> 1, bytes |-> 1]
\* what a scan may return: always sorted by bytes, descending
ItemLists == {<< >>, <<BigItem>>, <<BigItem, SmallItem>>}
\* the scan of an empty source directory
EmptyLists == {<< >>}
\* the byte counts a progress line of a child may carry
ProgressValues == {1}

\* ------------------------------------------------------------------ helpers
RECURSIVE SumBytes(_)
SumBytes(items) ==
    IF items = << >> THEN 0 ELSE Head(items).bytes + SumBytes(Tail(items))

RECURSIVE SumFiles(_)
SumFiles(items) ==
    IF items = << >> THEN 0 ELSE Head(items).files + SumFiles(Tail(items))

\* a distributor that hands every item to every worker
DistributeCopies(items, n) == [w \in 1..n |-> items]

\* the highest index among the workers of minimum load
LastMinWorker(loads) ==
    CHOOSE w \in DOMAIN loads :
        /\ \A v \in DOMAIN loads : loads[w] <= loads[v]
        /\ \A v \in DOMAIN loads : loads[v] = loads[w] => w >= v

\* always the first worker, whatever the loads
FirstWorker(loads) == CHOOSE w \in DOMAIN loads : \A v \in DOMAIN loads : w <= v

\* min(range(num_workers), key=lambda w: worker_loads[w]): the lowest index
\* among the workers of minimum load
MinWorker(loads) ==
    CHOOSE w \in DOMAIN loads :
        /\ \A v \in DOMAIN loads : loads[w] <= loads[v]
        /\ \A v \in DOMAIN loads : loads[v] = loads[w] => w <= v

RECURSIVE DistributeFrom(_, _, _)
DistributeFrom(items, loads, parts) ==
    IF items = << >> THEN parts
    ELSE LET w == MinWorker(loads)
             it == Head(items)
         IN DistributeFrom(Tail(items),
                           [loads EXCEPT ![w] = @ + it.bytes],
                           [parts EXCEPT ![w] = Append(@, it)])

\* _distribute_items(items, num_workers)
DistributeItems(items, n) ==
    DistributeFrom(items, [w \in 1..n |-> 0], [w \in 1..n |-> << >>])

Min2(a, b) == IF a <= b THEN a ELSE b

\* num_workers = min(job.parallel_jobs, len(items)) if items else 1
NumWorkers(items, parallel_jobs) ==
    IF items = << >> THEN 1 ELSE Min2(parallel_jobs, Len(items))

\* ------------------------------------------------------------------ state
VARIABLES
    job,        \* the SyncJob: parallel_jobs, status, last_run_status,
                \* last_run_message, run_count
    trk,        \* the job's entries in running_processes, worker_processes,
                \* running_tasks and stop_requested
    procLists,  \* the list objects stored in worker_processes, by creating run
    child,      \* the rsync child processes: <<run, worker, item>> -> state
    prog,       \* the SyncProgress objects, by the start_job call that made them
    curProg,    \* self.progress[job_id]: which SyncProgress object it holds
    slot,       \* the WorkerProgress objects: <<run, worker>> -> record
    run,        \* the _run_sync tasks
    wk,         \* the _run_worker tasks: <<run, worker>> -> record
    stop,       \* the stop_job call in flight
    startPc,    \* the start_job call in flight
    nStarts,    \* accepted start_job calls so far
    nStops,     \* stop_job calls so far
    mountOk,    \* what _check_lucidlink_healthy would answer now
    lastStart,  \* the message the last start_job call returned
    lastStop,   \* the message the last stop_job call returned
    pub,        \* the last _notify_progress call: whether there was one, and
                \* whether the aggregate counters equalled the workers' sums
    fatal,      \* the runs in which a worker detected a fatal mount failure
    stopAcc,    \* the runs whose workers a stop_job call was accepted for
    jobs,       \* self.jobs of the manager whose store is modelled: id -> job
    disk,       \* the jobs file, its .backup and its .tmp sibling
    save,       \* the save_jobs call in flight, or "down" after a crash
    sv,         \* about the last save_jobs call: the jobs file and self.jobs
                \* when it began, whether it got to the rename, and where a
                \* crash cut it
    fresh,      \* self.jobs is as load_jobs left it
    nSaves,     \* save_jobs calls so far
    nCrashes,   \* crashes so far
    ld,         \* about the last load_jobs call: the files it found, how its
                \* write of the .corrupted copy went, and whether it raised
    fn,         \* the last call of a function that touches no state of the
                \* manager: which one, its arguments, what it returned
    bus,        \* the progress bus: the registered callbacks, the
                \* _notify_progress calls, what each subscriber was handed
    fi,         \* the FilenameIssuesManager: its issues, the directory the
                \* files are in, the last rename_file call, the
                \* rename_all_pending call
    mgr,        \* a manager with several jobs: per job id its entries in
                \* the tracking dictionaries, its status and its tasks; the
                \* shutdown() call
    cs,         \* save_jobs calls that overlap: self.jobs, the files by
                \* name and by inode, each call's position and open file
    nest        \* a source tree with a directory and an entry below it:
                \* its paths, the issues of its scan, the
                \* rename_all_pending call over them

engineVars == <<job, trk, procLists, child, prog, curProg, slot, run, wk, stop,
                startPc, nStarts, nStops, mountOk, lastStart, lastStop, pub,
                fatal, stopAcc>>

storeVars == <<jobs, disk, save, sv, fresh, nSaves, nCrashes, ld>>

\* the variables of the parts modelled on their own
otherVars == <<bus, mgr, fi, cs, nest>>

nonEngineVars == <<storeVars, fn, otherVars>>

nonStoreVars == <<engineVars, fn, otherVars>>

vars == <<engineVars, storeVars, fn, otherVars>>

WorkerIds == Runs \X Workers

NoTracking ==
    [running_processes |-> FALSE, worker_processes |-> 0,
     running_tasks |-> 0, stop_requested |-> "absent"]

\* WorkerProgress(worker_id=i, ..., status="pending")
NewSlot == [status |-> "pending", files |-> 0, bytes |-> 0]
NoSlot == [status |-> "none", files |-> 0, bytes |-> 0]

\* SyncProgress(job_id=job_id, status=JobStatus.RUNNING, started_at=...)
NewProgress ==
    [status |-> "running", files |-> 0, bytes |-> 0, percent |-> 0,
     bytes_total |-> 0, wrun |-> 0, wn |-> 0]
NoProgress ==
    [status |-> "none", files |-> 0, bytes |-> 0, percent |-> 0,
     bytes_total |-> 0, wrun |-> 0, wn |-> 0]

NoWorker ==
    [pc |-> "none", k |-> 0, fdone |-> 0, bdone |-> 0, err |-> FALSE,
     first |-> "", cancel |-> FALSE, res |-> "none", lines |-> 0, sr |-> 0]
\* asyncio.create_task(self._run_worker(i, ...)): created, not yet run
NewWorker == [NoWorker EXCEPT !.pc = "notstarted", !.k = 1]

\* error_lines.append(f"[Worker {worker_id}] {what}"): whether the list is
\* empty, and what its first line says after the worker prefix
AddError(w, what) ==
    [w EXCEPT !.err = TRUE, !.first = IF @ = "" THEN what ELSE @]

\* JobStats of no run (last_run_stats is None)
NoStats == [run |-> 0, files |-> 0, bytes |-> 0]

NoRun == [pc |-> "none", prog |-> 0, n |-> 0, parts |-> << >>]

\* ------------------------------------------------------------ filename issues
\* issues created in one behaviour
MaxIssues == 2

IssueIds == 1..MaxIssues

\* no issue under an id; a name is a sequence, None and '' are << >>
NoIssue ==
    [job |-> "none", filename |-> << >>, suggested |-> << >>,
     status |-> "none", resolved |-> FALSE]

\* no rename_all_pending call
NoBatch ==
    [pc |-> "idle", job |-> "none", snap |-> << >>, todo |-> << >>,
     attempts |-> << >>, total |-> 0, renamed |-> 0, failed |-> 0,
     errors |-> << >>]

\* FilenameIssuesManager.__init__ and an empty directory.  created counts
\* the issues made so far, last is the last rename_file call (t flips with
\* every call)
NoIssues ==
    [issues |-> [i \in IssueIds |-> NoIssue], created |-> 0, fs |-> {},
     last |-> [t |-> 0, id |-> 0, arg |-> << >>, ok |-> FALSE,
              msg |-> "none"],
     batch |-> NoBatch]

\* -------------------------------------------------------------- progress bus
\* _notify_progress calls in one behaviour
MaxPublishes == 2
\* registered progress callbacks
MaxSubscribers == 2

\* self._progress_callbacks = []; no _notify_progress call yet.  cbs is the
\* length of the list (a subscriber is named by its position), calls the
\* _notify_progress calls in call order, log what each handler was invoked
\* with, in the order of the invocations
NoBus ==
    [cbs |-> 0, calls |-> << >>, log |-> [u \in 1..MaxSubscribers |-> << >>]]

\* the loop of _notify_progress of call c arrives at position i of the list:
\* `await callback(job_id, progress)` if there is one, else the call returns
Invoke(b, c, i) ==
    IF i <= b.cbs
    THEN [b EXCEPT !.calls[c].at = i, !.log[i] = Append(@, c)]
    ELSE [b EXCEPT !.calls[c].at = 0, !.calls[c].out = "returned"]

\* a _notify_progress in which an exception of a callback is not caught
NextCallbackUncaught(b, c, raised) ==
    IF raised THEN [b EXCEPT !.calls[c].at = 0, !.calls[c].out = "raised"]
    ELSE Invoke(b, c, b.calls[c].at + 1)

\* the awaited callback of call c is over; `except Exception as e: print(...)`
\* when it raised; in both cases the loop goes on with the next callback
NextCallback(b, c, raised) == Invoke(b, c, b.calls[c].at + 1)

\* register_progress_callback(callback): the subscribers register when their
\* module is imported, before any job runs
RegisterProgressCallback ==
    /\ bus.cbs < MaxSubscribers
    /\ bus.calls = << >>
    /\ bus' = [bus EXCEPT !.cbs = @ + 1]
    /\ UNCHANGED <<engineVars, storeVars, fn, mgr, fi, cs, nest>>

\* a publisher (worker, stop_job or run task) calls _notify_progress: up to
\* the first await
NotifyProgress ==
    /\ Len(bus.calls) < MaxPublishes
    /\ LET c == Len(bus.calls) + 1
           b == [bus EXCEPT !.calls =
                     Append(@, [at |-> 0, out |-> "pending", cbs0 |-> bus.cbs,
                                raisedBy |-> {}])]
       IN bus' = Invoke(b, c, 1)
    /\ UNCHANGED <<engineVars, storeVars, fn, mgr, fi, cs, nest>>

\* the handler awaited by call c returns
CallbackReturns(c) ==
    /\ c <= Len(bus.calls)
    /\ bus.calls[c].at > 0
    /\ bus' = NextCallback(bus, c, FALSE)
    /\ UNCHANGED <<engineVars, storeVars, fn, mgr, fi, cs, nest>>

\* the handler awaited by call c raises an Exception
CallbackRaises(c) ==
    /\ c <= Len(bus.calls)
    /\ bus.calls[c].at > 0
    /\ bus' = NextCallback([bus EXCEPT !.calls[c].raisedBy =
                                @ \cup {bus.calls[c].at}], c, TRUE)
    /\ UNCHANGED <<engineVars, storeVars, fn, mgr, fi, cs, nest>>

NextBus ==
    \/ RegisterProgressCallback
    \/ NotifyProgress
    \/ \E c \in 1..MaxPublishes : CallbackReturns(c)
    \/ \E c \in 1..MaxPublishes : CallbackRaises(c)

\* ------------------------------------------------------------- several jobs
\* the job ids of the manager: a job and another job
Jobs == {"A", "B"}

\* what the manager holds under one job id: job.status, progress[id].status,
\* the entries of the id in running_processes, worker_processes,
\* running_tasks and stop_requested, the _run_sync task, its worker task and
\* the child of that worker, the stop_job call in flight
NoJob ==
    [status |-> "idle", progress |-> "none", running |-> FALSE,
     procs |-> "absent", tasks |-> "absent", flag |-> "absent",
     run |-> "none", worker |-> "none", child |-> "none", stop |-> "idle"]

\* a manager whose jobs are idle; actor is the job id the last step was
\* called with
NoManager ==
    [job |-> [j \in Jobs |-> NoJob], actor |-> "none",
     shut |-> [pc |-> "idle", todo |-> << >>],
     jobs |-> Jobs, file |-> Jobs, del |-> [j \in Jobs |-> "idle"]]

\* every `del self.<dict>[job_id]` of all job ids at once
ForgetAll(m, j) ==
    [m EXCEPT !.job = [b \in Jobs |->
        [m.job[b] EXCEPT !.running = FALSE, !.procs = "absent",
                         !.tasks = "absent", !.flag = "absent"]]]

\* "Clean up tracking dicts": the four `if job_id in ...: del ...[job_id]`
Forget(m, j) ==
    [m EXCEPT !.job[j].running = FALSE, !.job[j].procs = "absent",
              !.job[j].tasks = "absent", !.job[j].flag = "absent"]

\* process.terminate() / task.cancel() on something that may be over
Terminated(c) == IF c = "run" THEN "term" ELSE c
CancelledTask(w) == IF w \in {"none", "done"} THEN w ELSE "cancelled"

ManagerFrame == UNCHANGED <<engineVars, storeVars, fn, bus, fi, cs, nest>>

\* start_job(j) up to create_task(self._run_sync(job))
MStartJob(j) ==
    /\ mgr.shut.pc = "idle"
    /\ ~mgr.job[j].running
    /\ mgr.job[j].run \in {"none", "done"}
    /\ mgr' = [mgr EXCEPT !.actor = j,
                          !.job[j].status = "running",
                          !.job[j].progress = "running",
                          !.job[j].run = "preflight",
                          !.job[j].worker = "none",
                          !.job[j].child = "none"]
    /\ ManagerFrame

\* _run_sync(j) after the preflight: "Initialize tracking for graceful
\* shutdown", the worker tasks, up to the gather
MRunWorkers(j) ==
    /\ mgr.job[j].run = "preflight"
    /\ mgr' = [mgr EXCEPT !.actor = j,
                          !.job[j].running = TRUE,
                          !.job[j].procs = "empty",
                          !.job[j].flag = "false",
                          !.job[j].tasks = "present",
                          !.job[j].worker = "notstarted",
                          !.job[j].run = "gather"]
    /\ ManagerFrame

\* _run_worker of j at the top of its item: the stop check, the mount probe
MWorkerTop(j) ==
    /\ mgr.job[j].worker = "notstarted"
    /\ \E healthy \in BOOLEAN :
         mgr' = IF mgr.job[j].flag = "true"
                THEN [mgr EXCEPT !.actor = j, !.job[j].worker = "done"]
                ELSE IF ~healthy
                THEN [mgr EXCEPT !.actor = j, !.job[j].flag = "true",
                                 !.job[j].worker = "done"]
                ELSE [mgr EXCEPT !.actor = j, !.job[j].worker = "spawning"]
    /\ ManagerFrame

\* create_subprocess_exec returned: "Track this process"
MWorkerSpawned(j) ==
    /\ mgr.job[j].worker = "spawning"
    /\ mgr' = [mgr EXCEPT !.actor = j,
                          !.job[j].child = "run",
                          !.job[j].procs =
                              IF @ = "absent" THEN @ ELSE "child",
                          !.job[j].worker = "reading"]
    /\ ManagerFrame

\* the worker of j reads a line with the signature of a dead mount
MWorkerFatal(j) ==
    /\ mgr.job[j].worker = "reading"
    /\ mgr.job[j].child = "run"
    /\ mgr' = [mgr EXCEPT !.actor = j, !.job[j].flag = "true",
                          !.job[j].child = "term",
                          !.job[j].worker = "done"]
    /\ ManagerFrame

\* the worker of j is through with its item: the child has exited, or the
\* worker found the stop flag set and terminated it
MWorkerItemDone(j) ==
    /\ mgr.job[j].worker = "reading"
    /\ mgr' = [mgr EXCEPT !.actor = j,
                          !.job[j].child =
                              IF @ # "run" THEN @
                              ELSE IF mgr.job[j].flag = "true" THEN "term"
                              ELSE "exited",
                          !.job[j].worker = "done"]
    /\ ManagerFrame

\* _run_sync(j) after the gather: the terminal status, then the `finally:`
MRunCleanup(j) ==
    /\ mgr.job[j].run = "gather"
    /\ mgr.job[j].worker \in {"done", "cancelled"}
    /\ LET st == IF mgr.job[j].flag = "true" THEN mgr.job[j].status
                 ELSE IF mgr.job[j].child = "exited" THEN "completed"
                 ELSE "failed"
           pr == IF mgr.job[j].flag = "true" THEN mgr.job[j].progress
                 ELSE st
       IN mgr' = Forget([mgr EXCEPT !.actor = j, !.job[j].status = st,
                                    !.job[j].progress = pr,
                                    !.job[j].run = "done"], j)
    /\ ManagerFrame

\* stop_job(j) up to `await self._notify_progress(...)`, for a job that is
\* in running_processes
StopBegin(m, j) ==
    [m EXCEPT !.actor = j, !.job[j].flag = "true",
              !.job[j].stop = "notified"]

\* a stop_job(j) call of a client
MStopJob(j) ==
    /\ mgr.shut.pc = "idle"
    /\ mgr.job[j].stop = "idle"
    /\ mgr.job[j].running
    /\ mgr' = StopBegin(mgr, j)
    /\ ManagerFrame

\* stop_job(j): terminate the registered children, wait for them, cancel
\* the worker tasks, up to the gather
MStopTerminate(j) ==
    /\ mgr.job[j].stop = "notified"
    /\ mgr' = [mgr EXCEPT !.actor = j,
                   !.job[j].child =
                       IF mgr.job[j].procs = "child"
                            \/ (mgr.job[j].tasks = "present"
                                  /\ mgr.job[j].worker = "reading")
                       THEN Terminated(@) ELSE @,
                   !.job[j].worker =
                       IF mgr.job[j].tasks = "present"
                       THEN CancelledTask(@) ELSE @,
                   !.job[j].stop = "gather"]
    /\ ManagerFrame

\* shutdown(): the stop_job call for the head of the list is over
Popped(sh, j) ==
    IF sh.pc = "stopping" /\ sh.todo # << >> /\ Head(sh.todo) = j
    THEN [pc |-> IF Tail(sh.todo) = << >> THEN "returned" ELSE "stopping",
          todo |-> Tail(sh.todo)]
    ELSE sh

\* stop_job(j) from its `finally:` to its return
MStopFinish(j) ==
    /\ mgr.job[j].stop = "gather"
    /\ mgr' = Forget([mgr EXCEPT !.actor = j,
                                 !.job[j].status = "stopped",
                                 !.job[j].progress =
                                     IF @ = "none" THEN @ ELSE "stopped",
                                 !.job[j].stop = "idle",
                                 !.shut = Popped(@, j)], j)
    /\ ManagerFrame

\* the orders in which a dictionary may hold the keys S
Orders(S) ==
    {q \in [1..Cardinality(S) -> S] :
        \A x, y \in 1..Cardinality(S) : x # y => q[x] # q[y]}

\* shutdown() up to its first stop_job call: list(running_processes.keys()).
\* The application calls it when the server has finished its requests.
MShutdown ==
    /\ mgr.shut.pc = "idle"
    /\ \A j \in Jobs : mgr.job[j].stop = "idle"
    /\ \E q \in Orders({j \in Jobs : mgr.job[j].running}) :
         mgr' = [mgr EXCEPT !.actor = "none",
                            !.shut = [pc |-> IF q = << >> THEN "returned"
                                             ELSE "stopping",
                                      todo |-> q]]
    /\ ManagerFrame

\* shutdown(): `await self.stop_job(job_id)` for the next id of the list
MShutdownStop ==
    /\ mgr.shut.pc = "stopping"
    /\ LET j == Head(mgr.shut.todo)
       IN /\ mgr.job[j].stop = "idle"
          /\ mgr' = IF mgr.job[j].running THEN StopBegin(mgr, j)
                    ELSE [mgr EXCEPT !.actor = j, !.shut = Popped(@, j)]
    /\ ManagerFrame

NextManager ==
    \/ \E j \in Jobs : MStartJob(j)
    \/ \E j \in Jobs : MRunWorkers(j)
    \/ \E j \in Jobs : MWorkerTop(j)
    \/ \E j \in Jobs : MWorkerSpawned(j)
    \/ \E j \in Jobs : MWorkerFatal(j)
    \/ \E j \in Jobs : MWorkerItemDone(j)
    \/ \E j \in Jobs : MRunCleanup(j)
    \/ \E j \in Jobs : MStopJob(j)
    \/ \E j \in Jobs : MStopTerminate(j)
    \/ \E j \in Jobs : MStopFinish(j)
    \/ MShutdown
    \/ MShutdownStop

\* a start_job(j) call for a job of self.jobs (for another id start_job
\* returns 'Job not found')
MStartKnownJob(j) ==
    /\ j \in mgr.jobs
    /\ MStartJob(j)

\* a stop_job(j) call of a client while no delete_job(j) is in its own
\* stop_job call
MStopKnownJob(j) ==
    /\ mgr.del[j] = "idle"
    /\ MStopJob(j)

\* delete_job(j) for a job of self.jobs: "Stop if running" up to the first
\* await of stop_job, or else `del self.jobs[job_id]` up to the await of
\* save_jobs
MDeleteJob(j) ==
    /\ j \in mgr.jobs
    /\ mgr.del[j] = "idle"
    /\ mgr.job[j].stop = "idle"
    /\ mgr' = IF mgr.job[j].running
              THEN [StopBegin(mgr, j) EXCEPT !.del[j] = "stopping"]
              ELSE [mgr EXCEPT !.actor = j, !.jobs = @ \ {j},
                               !.del[j] = "saving"]
    /\ ManagerFrame

\* stop_job(j) from its `finally:` to its return, for a stop_job call of a
\* client
MStopReturns(j) ==
    /\ mgr.del[j] # "stopping"
    /\ MStopFinish(j)

\* the stop_job(j) call of delete_job(j) from its `finally:` to its return,
\* then `del self.jobs[job_id]` up to the await of save_jobs
MDeleteStopped(j) ==
    /\ mgr.del[j] = "stopping"
    /\ mgr.job[j].stop = "gather"
    /\ mgr' = Forget([mgr EXCEPT !.actor = j,
                                 !.job[j].status = "stopped",
                                 !.job[j].progress =
                                     IF @ = "none" THEN @ ELSE "stopped",
                                 !.job[j].stop = "idle",
                                 !.jobs = @ \ {j},
                                 !.del[j] = "saving"], j)
    /\ ManagerFrame

\* delete_job(j): save_jobs has written the jobs of self.jobs, `return True`
MDeleteSaved(j) ==
    /\ mgr.del[j] = "saving"
    /\ mgr' = [mgr EXCEPT !.actor = j, !.file = mgr.jobs,
                          !.del[j] = "returned"]
    /\ ManagerFrame

\* the jobs of a manager whose clients start, stop and delete them
NextDelete ==
    \/ \E j \in Jobs : MStartKnownJob(j)
    \/ \E j \in Jobs : MRunWorkers(j)
    \/ \E j \in Jobs : MWorkerTop(j)
    \/ \E j \in Jobs : MWorkerSpawned(j)
    \/ \E j \in Jobs : MWorkerFatal(j)
    \/ \E j \in Jobs : MWorkerItemDone(j)
    \/ \E j \in Jobs : MRunCleanup(j)
    \/ \E j \in Jobs : MStopKnownJob(j)
    \/ \E j \in Jobs : MStopTerminate(j)
    \/ \E j \in Jobs : MStopReturns(j)
    \/ \E j \in Jobs : MDeleteJob(j)
    \/ \E j \in Jobs : MDeleteStopped(j)
    \/ \E j \in Jobs : MDeleteSaved(j)

\* no source tree scanned yet; a path is a sequence of names, relative to
\* the source; issues are in the order of the dictionary; denied tells that
\* the operating system refused a move of an existing entry
NoTree ==
    [pc |-> "idle", fs |-> {}, issues |-> << >>, todo |-> << >>,
     renamed |-> 0, failed |-> 0, denied |-> FALSE]

\* ------------------------------------------------- overlapping save_jobs
\* save_jobs calls in one behaviour of SpecSaves
MaxSaveCalls == 3

\* the handlers whose save_jobs calls may overlap (a request handler, a
\* stop_job call, the `finally:` of a run task)
Savers == {1, 2}

\* the inodes the calls may create
Inodes == 1..(MaxSaveCalls + 1)

\* json.dumps of the job set S as a sequence of tokens: an opening bracket,
\* the jobs, a closing bracket
TokensOf(S) ==
    <<"[">> \o (IF "a" \in S THEN <<"a">> ELSE << >>)
           \o (IF "b" \in S THEN <<"b">> ELSE << >>) \o <<"]">>

\* the text parses as a whole document
IsDocument(text) == \E S \in SUBSET {"a", "b"} : text = TokensOf(S)

\* a write of `text` at offset 0 of a file that holds `old`
Overwrite(old, text) ==
    text \o SubSeq(old, Len(text) + 1, Len(old))

NoSaver == [pc |-> "idle", text |-> << >>, fd |-> 0, flushed |-> FALSE]

\* a manager with one job whose jobs file holds it: inode 1; jobs, tmp and
\* backup are what the three paths name (0: no such file), data what each
\* inode holds
NoSaves ==
    [mem |-> {"a"}, jobs |-> 1, tmp |-> 0, backup |-> << >>,
     data |-> [i \in Inodes |-> IF i = 1 THEN TokensOf({"a"}) ELSE << >>],
     made |-> 1, n |-> 0, call |-> [c \in Savers |-> NoSaver]]

SavesFrame == UNCHANGED <<engineVars, storeVars, fn, bus, mgr, fi, nest>>

\* a handler changes self.jobs to S and calls save_jobs: json.dumps, the
\* backup copy, up to the await of aiofiles.open
OverlapSaveBegin(c, S) ==
    /\ cs.call[c].pc = "idle"
    /\ cs.n < MaxSaveCalls
    /\ cs' = [cs EXCEPT !.mem = S, !.n = @ + 1,
                        !.backup = IF cs.jobs = 0 THEN @ ELSE cs.data[cs.jobs],
                        !.call[c] = [NoSaver EXCEPT !.pc = "open",
                                                    !.text = TokensOf(S)]]
    /\ SavesFrame

\* aiofiles.open(temp_file, "w") in the executor: the file of that name is
\* cut to length 0, or a new one is made
OverlapSaveOpen(c) ==
    /\ cs.call[c].pc = "open"
    /\ LET i == IF cs.tmp = 0 THEN cs.made + 1 ELSE cs.tmp
       IN cs' = [cs EXCEPT !.tmp = i,
                           !.made = IF cs.tmp = 0 THEN @ + 1 ELSE @,
                           !.data[i] = << >>,
                           !.call[c].fd = i,
                           !.call[c].pc = "write"]
    /\ SavesFrame

\* `await f.write(json_content)`: the text goes to the buffer of the file
\* object, which passes it on to the file now or when the file is closed
OverlapSaveWrite(c) ==
    /\ cs.call[c].pc = "write"
    /\ \E now \in BOOLEAN :
         cs' = [cs EXCEPT !.data[cs.call[c].fd] =
                              IF now THEN Overwrite(@, cs.call[c].text) ELSE @,
                          !.call[c].flushed = now,
                          !.call[c].pc = "close"]
    /\ SavesFrame

\* the end of the `async with`: the file is closed, which writes what the
\* buffer still holds
OverlapSaveClose(c) ==
    /\ cs.call[c].pc = "close"
    /\ cs' = [cs EXCEPT !.data[cs.call[c].fd] =
                            IF cs.call[c].flushed THEN @
                            ELSE Overwrite(@, cs.call[c].text),
                        !.call[c].pc = "replace"]
    /\ SavesFrame

\* os.replace(temp_file, settings.jobs_file), which raises when no file has
\* the name temp_file; `except Exception` prints the error; the call returns
OverlapSaveReplace(c) ==
    /\ cs.call[c].pc = "replace"
    /\ cs' = [cs EXCEPT !.jobs = IF cs.tmp = 0 THEN @ ELSE cs.tmp,
                        !.tmp = 0,
                        !.call[c] = NoSaver]
    /\ SavesFrame

NextSaves ==
    \/ \E c \in Savers, S \in SUBSET {"a", "b"} : OverlapSaveBegin(c, S)
    \/ \E c \in Savers : OverlapSaveOpen(c)
    \/ \E c \in Savers : OverlapSaveWrite(c)
    \/ \E c \in Savers : OverlapSaveClose(c)
    \/ \E c \in Savers : OverlapSaveReplace(c)

\* a file that does not exist
Absent == [kind |-> "absent"]

\* SyncManager.__init__ on a config directory without a jobs file
StoreInit ==
    /\ jobs = [i \in {} |-> 0]
    /\ disk = [jobs |-> Absent, backup |-> Absent, tmp |-> Absent,
               corrupted |-> Absent]
    /\ save = [pc |-> "idle", doc |-> << >>]
    /\ sv = [prior |-> Absent, J |-> [i \in {} |-> 0], done |-> FALSE,
             at |-> "none"]
    /\ fresh = FALSE
    /\ nSaves = 0
    /\ nCrashes = 0
    /\ ld = [disk |-> disk, copy |-> "none", raised |-> FALSE]
    /\ fn = [op |-> "none", arg |-> << >>, out |-> << >>]

Init ==
    /\ StoreInit
    /\ \E pj \in Workers :
         job = [parallel_jobs |-> pj, status |-> "idle",
                last_run_status |-> "none", last_run_message |-> "none",
                run_count |-> 0, last_run_at |-> 0,
                last_run_stats |-> NoStats]
    /\ trk = NoTracking
    /\ procLists = [r \in Runs |-> << >>]
    /\ child = [c \in {} |-> "none"]
    /\ prog = [p \in Runs |-> NoProgress]
    /\ curProg = 0
    /\ slot = [s \in WorkerIds |-> NoSlot]
    /\ run = [r \in Runs |-> NoRun]
    /\ wk = [s \in WorkerIds |-> NoWorker]
    /\ stop = [pc |-> "idle", list |-> 0, k |-> 0, tasks |-> 0]
    /\ startPc = "idle"
    /\ nStarts = 0
    /\ nStops = 0
    /\ mountOk = TRUE
    /\ lastStart = "none"
    /\ lastStop = "none"
    /\ pub = [n |-> 0, fOk |-> TRUE, bOk |-> TRUE]
    /\ fatal = {}
    /\ stopAcc = {}
    /\ bus = NoBus
    /\ mgr = NoManager
    /\ fi = NoIssues
    /\ cs = NoSaves
    /\ nest = NoTree

\* ------------------------------------------------------------------ progress
RECURSIVE SlotFiles(_, _, _)
\* sum(w.files_transferred for w in progress.workers)
SlotFiles(sl, r, n) ==
    IF n = 0 THEN 0 ELSE sl[<<r, n>>].files + SlotFiles(sl, r, n - 1)

RECURSIVE SlotBytes(_, _, _)
\* sum(w.bytes_transferred for w in progress.workers)
SlotBytes(sl, r, n) ==
    IF n = 0 THEN 0 ELSE sl[<<r, n>>].bytes + SlotBytes(sl, r, n - 1)

\* (progress.bytes_transferred / progress.bytes_total) * 100, as an integer
Percent(pr) ==
    IF pr.bytes_total > 0 THEN (pr.bytes * 100) \div pr.bytes_total
    ELSE pr.percent

\* _notify_progress(job_id, progress) called from `site` with the progress
\* object `pr` while the WorkerProgress objects are `sl`
Notify(site, pr, sl) ==
    [n |-> 1,
     fOk |-> pr.files = SlotFiles(sl, pr.wrun, pr.wn),
     bOk |-> pr.bytes = SlotBytes(sl, pr.wrun, pr.wn)]

\* ------------------------------------------------------------------ start_job
\* the inputs of a start_job call: whether job_id is a job of the table and
\* whether the job's source path is accessible
StartInputs == [known : BOOLEAN, srcOk : BOOLEAN]

\* a start of the job of the table, with an accessible source path
GoodStart == {[known |-> TRUE, srcOk |-> TRUE]}

\* a rejection that has already marked the job as running
RejectMarked(msg) ==
    /\ lastStart' = msg
    /\ job' = [job EXCEPT !.status = "running"]
    /\ UNCHANGED <<prog, curProg, startPc, nStarts>>

\* start_job: return False, msg
Reject(msg) ==
    /\ lastStart' = msg
    /\ UNCHANGED <<job, prog, curProg, startPc, nStarts>>

\* start_job up to `await self.save_jobs()`: the four rejections, else the
\* progress entry, status RUNNING and last_run_at (the number of the start
\* stands for the time); at most `limit` calls are accepted
StartJob(limit, inputs) ==
    /\ startPc = "idle"
    /\ nStarts < limit
    /\ \E inp \in inputs :
         IF ~inp.known
         THEN Reject("Job not found")
         ELSE IF trk.running_processes
         THEN Reject("Job is already running")
         ELSE IF ~mountOk
         THEN Reject("Cannot start job")
         ELSE IF ~inp.srcOk
         THEN Reject("Source path not accessible")
         ELSE /\ prog' = [prog EXCEPT ![nStarts + 1] = NewProgress]
              /\ curProg' = nStarts + 1
              /\ job' = [job EXCEPT !.status = "running",
                                    !.last_run_at = nStarts + 1]
              /\ startPc' = "saving"
              /\ nStarts' = nStarts + 1
              /\ UNCHANGED lastStart
    /\ UNCHANGED <<trk, procLists, child, slot, run, wk, stop, nStops,
                   mountOk, lastStop, pub, fatal, stopAcc>>
    /\ UNCHANGED nonEngineVars

\* start_job after the save: asyncio.create_task(self._run_sync(job))
StartSpawn ==
    /\ startPc = "saving"
    /\ startPc' = "idle"
    /\ run' = [run EXCEPT ![nStarts] = [NoRun EXCEPT !.pc = "created"]]
    /\ lastStart' = "Job started"
    /\ UNCHANGED <<job, trk, procLists, child, prog, curProg, slot, wk, stop,
                   nStarts, nStops, mountOk, lastStop, pub, fatal, stopAcc>>
    /\ UNCHANGED nonEngineVars

\* ------------------------------------------------------------------ _run_sync
\* the task's first segment: progress = self.progress.get(job_id), then the
\* scan is handed to the executor
RunBegin(r) ==
    /\ run[r].pc = "created"
    /\ run' = [run EXCEPT ![r].pc = "scan", ![r].prog = curProg]
    /\ UNCHANGED <<job, trk, procLists, child, prog, curProg, slot, wk, stop,
                   startPc, nStarts, nStops, mountOk, lastStart, lastStop,
                   pub, fatal, stopAcc>>
    /\ UNCHANGED nonEngineVars

\* the scan returned `items`: distribute them, create the WorkerProgress
\* objects, publish
RunScanDone(r, lists) ==
    /\ run[r].pc = "scan"
    /\ \E items \in lists :
         LET n == NumWorkers(items, job.parallel_jobs)
             p == run[r].prog
             pr == [prog[p] EXCEPT !.wrun = r, !.wn = n,
                                   !.bytes_total = SumBytes(items)]
             sl == [s \in WorkerIds |->
                      IF s[1] = r
                        THEN IF s[2] <= n THEN NewSlot ELSE NoSlot
                        ELSE slot[s]]
         IN /\ run' = [run EXCEPT ![r].pc = "preflight", ![r].n = n,
                                  ![r].parts = DistributeItems(items, n)]
            /\ prog' = [prog EXCEPT ![p] = pr]
            /\ slot' = sl
            /\ pub' = Notify("scan", pr, sl)
    /\ UNCHANGED <<job, trk, procLists, child, curProg, wk, stop, startPc,
                   nStarts, nStops, mountOk, lastStart, lastStop, fatal,
                   stopAcc>>
    /\ UNCHANGED nonEngineVars

\* the filename scan and the directory creation are over: publish, reset the
\* tracking maps, create the worker tasks, await asyncio.gather
RunPreflightDone(r) ==
    /\ run[r].pc = "preflight"
    /\ run' = [run EXCEPT ![r].pc = "gather"]
    /\ trk' = [running_processes |-> TRUE, worker_processes |-> r,
               running_tasks |-> r, stop_requested |-> "false"]
    /\ procLists' = [procLists EXCEPT ![r] = << >>]
    /\ wk' = [s \in WorkerIds |->
                IF s[1] = r /\ s[2] <= run[r].n THEN NewWorker ELSE wk[s]]
    /\ pub' = Notify("preflight", prog[run[r].prog], slot)
    /\ UNCHANGED <<job, child, prog, curProg, slot, stop, startPc, nStarts,
                   nStops, mountOk, lastStart, lastStop, fatal, stopAcc>>
    /\ UNCHANGED nonEngineVars

\* `except Exception as e:` of _run_sync, then the synchronous part of its
\* `finally:` up to `await self.save_jobs()`
RunExcept(r) ==
    /\ job' = [job EXCEPT !.status = "failed", !.last_run_status = "failed",
                          !.last_run_message = "exception"]
    /\ prog' = [prog EXCEPT ![curProg].status = "failed"]
    /\ trk' = NoTracking
    /\ run' = [run EXCEPT ![r].pc = "saving"]

\* an exception escapes the filename scan (the issue store cannot be written)
RunPreflightFails(r) ==
    /\ run[r].pc = "preflight"
    /\ RunExcept(r)
    /\ UNCHANGED <<procLists, child, curProg, slot, wk, stop, startPc,
                   nStarts, nStops, mountOk, lastStart, lastStop, pub, fatal,
                   stopAcc>>
    /\ UNCHANGED nonEngineVars

RunWorkers(r) == {<<r, i>> : i \in 1..run[r].n}

\* all_errors[0]: the first error line of the first worker that has one
\* (worker_id counts from 0)
FirstError(r) ==
    LET i == CHOOSE i \in 1..run[r].n :
                 /\ wk[<<r, i>>].err
                 /\ \A v \in 1..(i - 1) : ~wk[<<r, v>>].err
    IN "[Worker " \o ToString(i - 1) \o "] " \o wk[<<r, i>>].first

RECURSIVE DoneFiles(_, _)
\* total_files_done: the sum of the files_done the workers returned
DoneFiles(r, n) ==
    IF n = 0 THEN 0 ELSE wk[<<r, n>>].fdone + DoneFiles(r, n - 1)

RECURSIVE DoneBytes(_, _)
\* total_bytes_done
DoneBytes(r, n) ==
    IF n = 0 THEN 0 ELSE wk[<<r, n>>].bdone + DoneBytes(r, n - 1)

RECURSIVE TotalFiles(_)
\* total_files = sum(item[1] for item in items), over the partitions
TotalFiles(parts) ==
    IF parts = << >> THEN 0
    ELSE SumFiles(Head(parts)) + TotalFiles(Tail(parts))

RECURSIVE TotalBytes(_)
\* total_bytes = sum(item[2] for item in items)
TotalBytes(parts) ==
    IF parts = << >> THEN 0
    ELSE SumBytes(Head(parts)) + TotalBytes(Tail(parts))

\* JobStats(files_synced=total_files_done if total_files_done > 0 else
\* total_files, bytes_transferred=... likewise, ...) of run r
RunStats(r) ==
    LET fd == DoneFiles(r, run[r].n)
        bd == DoneBytes(r, run[r].n)
    IN [run |-> r,
        files |-> IF fd > 0 THEN fd ELSE TotalFiles(run[r].parts),
        bytes |-> IF bd > 0 THEN bd ELSE TotalBytes(run[r].parts)]

\* "Update final status" and what follows it without an await: the statistics,
\* then the `finally:` up to `await self.save_jobs()`
RunDecide(r, errors) ==
    LET p == run[r].prog
    IN /\ IF trk.stop_requested = "true"
            THEN /\ job' = [job EXCEPT !.run_count = @ + 1,
                                       !.last_run_stats = RunStats(r)]
                 /\ UNCHANGED prog
            ELSE IF ~errors
            THEN /\ job' = [job EXCEPT !.status = "completed",
                                       !.last_run_status = "completed",
                                       !.last_run_message = "Completed",
                                       !.run_count = @ + 1,
                                       !.last_run_stats = RunStats(r)]
                 /\ prog' = [prog EXCEPT ![p].status = "completed",
                                         ![p].percent = 100]
            ELSE /\ job' = [job EXCEPT !.status = "failed",
                                       !.last_run_status = "failed",
                                       !.last_run_message =
                                           "Failed: " \o FirstError(r),
                                       !.run_count = @ + 1,
                                       !.last_run_stats = RunStats(r)]
                 /\ prog' = [prog EXCEPT ![p].status = "failed"]
       /\ trk' = NoTracking
       /\ run' = [run EXCEPT ![r].pc = "saving"]

\* asyncio.gather returned: aggregate the workers' results
RunGathered(r) ==
    /\ run[r].pc = "gather"
    /\ \A s \in RunWorkers(r) : wk[s].pc = "done"
    /\ IF \E s \in RunWorkers(r) : wk[s].res = "cancelled"
         \* a CancelledError is no Exception: unpacking it raises TypeError
         THEN RunExcept(r)
         ELSE IF \E s \in RunWorkers(r) : wk[s].err
         \* await self._log_errors(...)
         THEN /\ run' = [run EXCEPT ![r].pc = "logerrors"]
              /\ UNCHANGED <<job, prog, trk>>
         ELSE RunDecide(r, FALSE)
    /\ UNCHANGED <<procLists, child, curProg, slot, wk, stop, startPc,
                   nStarts, nStops, mountOk, lastStart, lastStop, pub, fatal,
                   stopAcc>>
    /\ UNCHANGED nonEngineVars

\* _log_errors returned
RunLogged(r) ==
    /\ run[r].pc = "logerrors"
    /\ RunDecide(r, TRUE)
    /\ UNCHANGED <<procLists, child, curProg, slot, wk, stop, startPc,
                   nStarts, nStops, mountOk, lastStart, lastStop, pub, fatal,
                   stopAcc>>
    /\ UNCHANGED nonEngineVars

\* save_jobs returned: the final publish of self.progress[job_id]
RunSaved(r) ==
    /\ run[r].pc = "saving"
    /\ run' = [run EXCEPT ![r].pc = "done"]
    /\ pub' = Notify("final", prog[curProg], slot)
    /\ UNCHANGED <<job, trk, procLists, child, prog, curProg, slot, wk, stop,
                   startPc, nStarts, nStops, mountOk, lastStart, lastStop,
                   fatal, stopAcc>>
    /\ UNCHANGED nonEngineVars

\* ------------------------------------------------------------------ children
\* a child is alive: "run", or "ign" (it has received SIGTERM and ignores it:
\* it goes on without output until it is killed); or dead: "rc0" (exit 0),
\* "rc1" (another exit code), "term" (returncode -15), "killed" (returncode -9)
Alive(c) == c \in {"run", "ign"}

\* process.terminate(): what the child may be afterwards
Terminate(c) == IF c = "run" THEN {"term", "ign"} ELSE {c}

\* process.kill()
Kill(c) == IF Alive(c) THEN "killed" ELSE c

\* the process of the item worker s is at
Cid(s) == <<s[1], s[2], wk[s].k>>

\* self.stop_requested.get(job_id)
Flag == trk.stop_requested = "true"

\* ------------------------------------------------------------------ _run_worker
\* the end of _run_worker: a `stopped` status stays, else the error list decides
Finish(w, st) ==
    [w |-> [w EXCEPT !.pc = "done", !.res = "ok"],
     st |-> IF st = "stopped" THEN st
            ELSE IF w.err THEN "failed" ELSE "completed"]

\* a worker that gives up its partition at the first error
AfterItemUnlessError(w, st, flag) ==
    IF flag \/ w.err THEN Finish(w, "stopped")
    ELSE [w |-> [w EXCEPT !.pc = "top", !.k = @ + 1], st |-> st]

\* "Check stop again after item completion", then the next item
AfterItem(w, st, flag) ==
    IF flag THEN Finish(w, "stopped")
    ELSE [w |-> [w EXCEPT !.pc = "top", !.k = @ + 1], st |-> st]

\* the top of `while True:`: the stop check, then the read is awaited.
\* terminate() of a child whose exit the loop has already processed raises
\* ProcessLookupError, which `except Exception` turns into an error line
LoopTops(w, st, c, flag) ==
    IF ~flag THEN {[w |-> [w EXCEPT !.pc = "reading"], st |-> st, c |-> c]}
    ELSE IF Alive(c)
    THEN {[w |-> [w EXCEPT !.pc = "termwait"], st |-> st, c |-> c1] :
            c1 \in Terminate(c)}
    ELSE {[w |-> [w EXCEPT !.pc = "termwait"], st |-> st, c |-> c],
          [w |-> AfterItem(AddError(w, "Error syncing"), st, flag).w,
           st |-> AfterItem(AddError(w, "Error syncing"), st, flag).st,
           c |-> c]}

\* the task's first segment, or the top of `for item_name, ... in items:`, up
\* to `await asyncio.create_subprocess_exec`
WorkerTop(s) ==
    LET r == s[1]
        i == s[2]
        w == wk[s]
        first == w.pc = "notstarted"
        p == run[r].prog
        \* worker = progress.workers[worker_id]
        sr == IF first THEN prog[p].wrun ELSE w.sr
        sid == <<sr, i>>
        w1 == [w EXCEPT !.sr = sr]
        st0 == IF first THEN "running" ELSE slot[sid].status
    IN /\ w.pc \in {"notstarted", "top"}
       /\ first => ~w.cancel
       /\ IF first /\ (sr = 0 \/ i > prog[p].wn)
            \* IndexError: the task ends with an exception
            THEN /\ wk' = [wk EXCEPT ![s] =
                             [AddError(w, "Exception") EXCEPT
                                !.pc = "done", !.res = "exc"]]
                 /\ UNCHANGED <<slot, trk, child, fatal>>
            ELSE IF w.k > Len(run[r].parts[i])
            THEN /\ wk' = [wk EXCEPT ![s] = Finish(w1, st0).w]
                 /\ slot' = [slot EXCEPT ![sid].status = Finish(w1, st0).st]
                 /\ UNCHANGED <<trk, child, fatal>>
            ELSE IF Flag
            THEN /\ wk' = [wk EXCEPT ![s] = Finish(w1, "stopped").w]
                 /\ slot' = [slot EXCEPT ![sid].status = "stopped"]
                 /\ UNCHANGED <<trk, child, fatal>>
            ELSE IF ~mountOk
            \* "Mount unhealthy": signal stop for all workers
            THEN /\ wk' = [wk EXCEPT ![s] =
                             Finish(AddError(w1, "Mount unhealthy"),
                                    "failed").w]
                 /\ slot' = [slot EXCEPT ![sid].status = "failed"]
                 /\ trk' = [trk EXCEPT !.stop_requested = "true"]
                 /\ fatal' = fatal \cup {r}
                 /\ UNCHANGED child
            ELSE /\ child' = (<<r, i, w.k>> :> "run") @@ child
                 /\ wk' = [wk EXCEPT ![s] = [w1 EXCEPT !.pc = "spawning"]]
                 /\ slot' = [slot EXCEPT ![sid].status = st0]
                 /\ UNCHANGED <<trk, fatal>>
       /\ UNCHANGED <<job, procLists, prog, curProg, run, stop, startPc,
                      nStarts, nStops, mountOk, lastStart, lastStop, pub,
                      stopAcc>>
       /\ UNCHANGED nonEngineVars

\* create_subprocess_exec returned: track the process, enter `while True:`
WorkerSpawned(s) ==
    LET w == wk[s]
        sid == <<w.sr, s[2]>>
    IN /\ w.pc = "spawning"
       /\ ~w.cancel
       /\ procLists' = IF trk.worker_processes # 0
                         THEN [procLists EXCEPT ![trk.worker_processes] =
                                 Append(@, Cid(s))]
                         ELSE procLists
       /\ \E o \in LoopTops(w, slot[sid].status, child[Cid(s)], Flag) :
            /\ wk' = [wk EXCEPT ![s] = o.w]
            /\ slot' = [slot EXCEPT ![sid].status = o.st]
            /\ child' = [child EXCEPT ![Cid(s)] = o.c]
       /\ UNCHANGED <<job, trk, prog, curProg, run, stop, startPc, nStarts,
                      nStops, mountOk, lastStart, lastStop, pub, fatal,
                      stopAcc>>
       /\ UNCHANGED nonEngineVars

\* after `break` out of `while True:`: `if not self.stop_requested.get(job_id):
\* await process.wait()`, else straight to the check after the item
AfterBreak(w, st, flag) ==
    IF ~flag THEN [w |-> [w EXCEPT !.pc = "waitexit"], st |-> st]
    ELSE AfterItem(w, st, flag)

\* readline returned b"" (the child closed its output), or the read timed out
\* on a child that has exited
WorkerReadEof(s) ==
    LET w == wk[s]
        sid == <<w.sr, s[2]>>
        c == child[Cid(s)]
        o == AfterBreak(w, slot[sid].status, Flag)
    IN /\ w.pc = "reading"
       /\ ~w.cancel
       /\ c # "ign"
       /\ \E c1 \in (IF c = "run" THEN {"rc0", "rc1"} ELSE {c}) :
            child' = [child EXCEPT ![Cid(s)] = c1]
       /\ wk' = [wk EXCEPT ![s] = o.w]
       /\ slot' = [slot EXCEPT ![sid].status = o.st]
       /\ UNCHANGED <<job, trk, procLists, prog, curProg, run, stop, startPc,
                      nStarts, nStops, mountOk, lastStart, lastStop, pub,
                      fatal, stopAcc>>
       /\ UNCHANGED nonEngineVars

\* the 0.5 s read deadline passed and the child is still running: `continue`
WorkerReadTimeout(s) ==
    LET w == wk[s]
        sid == <<w.sr, s[2]>>
    IN /\ w.pc = "reading"
       /\ ~w.cancel
       /\ Alive(child[Cid(s)])
       /\ \E o \in LoopTops(w, slot[sid].status, child[Cid(s)], Flag) :
            /\ wk' = [wk EXCEPT ![s] = o.w]
            /\ slot' = [slot EXCEPT ![sid].status = o.st]
            /\ child' = [child EXCEPT ![Cid(s)] = o.c]
       /\ UNCHANGED <<job, trk, procLists, prog, curProg, run, stop, startPc,
                      nStarts, nStops, mountOk, lastStart, lastStop, pub,
                      fatal, stopAcc>>
       /\ UNCHANGED nonEngineVars

\* a line starting with "rsync:" that names no mount failure
WorkerReadError(s) ==
    LET w == wk[s]
        sid == <<w.sr, s[2]>>
        w1 == [AddError(w, "rsync: error") EXCEPT !.lines = @ + 1]
    IN /\ w.pc = "reading"
       /\ ~w.cancel
       /\ child[Cid(s)] = "run"
       /\ w.lines < MaxLines
       /\ \E o \in LoopTops(w1, slot[sid].status, child[Cid(s)], Flag) :
            /\ wk' = [wk EXCEPT ![s] = o.w]
            /\ slot' = [slot EXCEPT ![sid].status = o.st]
            /\ child' = [child EXCEPT ![Cid(s)] = o.c]
       /\ UNCHANGED <<job, trk, procLists, prog, curProg, run, stop, startPc,
                      nStarts, nStops, mountOk, lastStart, lastStop, pub,
                      fatal, stopAcc>>
       /\ UNCHANGED nonEngineVars

\* a line starting with "rsync:" that contains "Transport endpoint is not
\* connected" or "Stale file handle"
WorkerReadFatal(s) ==
    LET w == wk[s]
        sid == <<w.sr, s[2]>>
        \* worker.status = "failed"; break; then the check after the item
        \* finds the flag this worker has just set
        o == AfterBreak(AddError(w, "rsync: mount"), "failed", TRUE)
    IN /\ w.pc = "reading"
       /\ ~w.cancel
       /\ child[Cid(s)] = "run"
       /\ trk' = [trk EXCEPT !.stop_requested = "true"]
       /\ \E c1 \in Terminate(child[Cid(s)]) :
            child' = [child EXCEPT ![Cid(s)] = c1]
       /\ wk' = [wk EXCEPT ![s] = o.w]
       /\ slot' = [slot EXCEPT ![sid].status = o.st]
       /\ fatal' = fatal \cup {s[1]}
       /\ UNCHANGED <<job, procLists, prog, curProg, run, stop, startPc,
                      nStarts, nStops, mountOk, lastStart, lastStop, pub,
                      stopAcc>>
       /\ UNCHANGED nonEngineVars

\* a progress line: worker.bytes_transferred = bytes_done + the line's bytes;
\* when 0.5 s have passed since this worker's last publish, the aggregate is
\* recomputed and published
WorkerReadProgress(s) ==
    LET w == wk[s]
        sid == <<w.sr, s[2]>>
        p == run[s[1]].prog
        w1 == [w EXCEPT !.lines = @ + 1]
    IN /\ w.pc = "reading"
       /\ ~w.cancel
       /\ child[Cid(s)] = "run"
       /\ w.lines < MaxLines
       /\ \E v \in ProgressValues :
            LET sl == [slot EXCEPT ![sid].bytes = w.bdone + v]
                b == SlotBytes(sl, prog[p].wrun, prog[p].wn)
                pr == [prog[p] EXCEPT !.bytes = b,
                         !.percent = Percent([prog[p] EXCEPT !.bytes = b])]
            IN \/ /\ prog' = [prog EXCEPT ![p] = pr]
                  /\ pub' = Notify("progress", pr, sl)
                  /\ wk' = [wk EXCEPT ![s] = [w1 EXCEPT !.pc = "notifyMid"]]
                  /\ slot' = sl
                  /\ UNCHANGED child
               \/ /\ \E o \in LoopTops(w1, sl[sid].status,
                                       child[Cid(s)], Flag) :
                       /\ wk' = [wk EXCEPT ![s] = o.w]
                       /\ slot' = [sl EXCEPT ![sid].status = o.st]
                       /\ child' = [child EXCEPT ![Cid(s)] = o.c]
                  /\ UNCHANGED <<prog, pub>>
       /\ UNCHANGED <<job, trk, procLists, curProg, run, stop, startPc,
                      nStarts, nStops, mountOk, lastStart, lastStop, fatal,
                      stopAcc>>
       /\ UNCHANGED nonEngineVars

\* the throttled publish returned: back to the top of `while True:`
WorkerNotifiedMid(s) ==
    LET w == wk[s]
        sid == <<w.sr, s[2]>>
    IN /\ w.pc = "notifyMid"
       /\ ~w.cancel
       /\ \E o \in LoopTops(w, slot[sid].status, child[Cid(s)], Flag) :
            /\ wk' = [wk EXCEPT ![s] = o.w]
            /\ slot' = [slot EXCEPT ![sid].status = o.st]
            /\ child' = [child EXCEPT ![Cid(s)] = o.c]
       /\ UNCHANGED <<job, trk, procLists, prog, curProg, run, stop, startPc,
                      nStarts, nStops, mountOk, lastStart, lastStop, pub,
                      fatal, stopAcc>>
       /\ UNCHANGED nonEngineVars

\* `await asyncio.wait_for(process.wait(), timeout=5.0)` of the stop branch
\* is over: the child has exited, or TimeoutError (caught as an item error;
\* the child is left alone)
WorkerTermWait(s) ==
    LET w == wk[s]
        sid == <<w.sr, s[2]>>
        c == child[Cid(s)]
        \* returncode not in (0, -15) after `await process.wait()`
        w1 == IF Alive(c) THEN AddError(w, "Error syncing")
              ELSE IF ~Flag /\ c \in {"killed", "rc1"}
                THEN AddError(w, "Failed to sync")
              ELSE w
        st1 == IF Alive(c) THEN slot[sid].status ELSE "stopped"
        o == AfterItem(w1, st1, Flag)
    IN /\ w.pc = "termwait"
       /\ ~w.cancel
       /\ wk' = [wk EXCEPT ![s] = o.w]
       /\ slot' = [slot EXCEPT ![sid].status = o.st]
       /\ UNCHANGED <<job, trk, procLists, child, prog, curProg, run, stop,
                      startPc, nStarts, nStops, mountOk, lastStart, lastStop,
                      pub, fatal, stopAcc>>
       /\ UNCHANGED nonEngineVars

\* `await process.wait()` after the loop returned: on exit code 0 the item's
\* totals are added, the aggregate recomputed and published
WorkerWaitExit(s) ==
    LET w == wk[s]
        r == s[1]
        sid == <<w.sr, s[2]>>
        p == run[r].prog
        c == child[Cid(s)]
        it == run[r].parts[s[2]][w.k]
    IN /\ w.pc = "waitexit"
       /\ ~w.cancel
       /\ ~Alive(c)
       /\ IF c = "rc0"
            THEN LET w1 == [w EXCEPT !.fdone = @ + it.files,
                                     !.bdone = @ + it.bytes,
                                     !.pc = "notifyDone"]
                     sl == [slot EXCEPT ![sid].files = w1.fdone,
                                        ![sid].bytes = w1.bdone]
                     b == SlotBytes(sl, prog[p].wrun, prog[p].wn)
                     pr == [prog[p] EXCEPT
                              !.files = SlotFiles(sl, prog[p].wrun, prog[p].wn),
                              !.bytes = b,
                              !.percent = Percent([prog[p] EXCEPT !.bytes = b])]
                 IN /\ wk' = [wk EXCEPT ![s] = w1]
                    /\ slot' = sl
                    /\ prog' = [prog EXCEPT ![p] = pr]
                    /\ pub' = Notify("item", pr, sl)
            ELSE LET w1 == IF c = "term" THEN w
                           ELSE AddError(w, "Failed to sync")
                     o == AfterItem(w1, slot[sid].status, Flag)
                 IN /\ wk' = [wk EXCEPT ![s] = o.w]
                    /\ slot' = [slot EXCEPT ![sid].status = o.st]
                    /\ UNCHANGED <<prog, pub>>
       /\ UNCHANGED <<job, trk, procLists, child, curProg, run, stop, startPc,
                      nStarts, nStops, mountOk, lastStart, lastStop, fatal,
                      stopAcc>>
       /\ UNCHANGED nonEngineVars

\* the publish after a completed item returned
WorkerNotifiedDone(s) ==
    LET w == wk[s]
        sid == <<w.sr, s[2]>>
        o == AfterItem(w, slot[sid].status, Flag)
    IN /\ w.pc = "notifyDone"
       /\ ~w.cancel
       /\ wk' = [wk EXCEPT ![s] = o.w]
       /\ slot' = [slot EXCEPT ![sid].status = o.st]
       /\ UNCHANGED <<job, trk, procLists, child, prog, curProg, run, stop,
                      startPc, nStarts, nStops, mountOk, lastStart, lastStop,
                      pub, fatal, stopAcc>>
       /\ UNCHANGED nonEngineVars

\* the task ends cancelled: `except asyncio.CancelledError:
\* worker.status = "stopped"; raise`
Cancelled(w) == [w EXCEPT !.pc = "done", !.res = "cancelled", !.cancel = FALSE]

\* task.cancel() reaches the task at the await it is suspended in
WorkerCancelled(s) ==
    LET w == wk[s]
        sid == <<w.sr, s[2]>>
    IN /\ w.cancel
       /\ w.pc \in {"notstarted", "spawning", "reading", "termwait",
                    "waitexit", "notifyMid", "notifyDone"}
       /\ IF w.pc = "notstarted"
            \* the coroutine never runs: its WorkerProgress stays as it is
            THEN /\ wk' = [wk EXCEPT ![s] = Cancelled(w)]
                 /\ UNCHANGED <<slot, child>>
            ELSE IF w.pc = "spawning"
            \* create_subprocess_exec kills the child it was starting
            THEN /\ wk' = [wk EXCEPT ![s] = Cancelled(w)]
                 /\ slot' = [slot EXCEPT ![sid].status = "stopped"]
                 /\ child' = [child EXCEPT ![Cid(s)] = Kill(@)]
            ELSE IF Alive(child[Cid(s)])
            \* process.terminate(), then wait_for(process.wait(), 5.0)
            THEN /\ wk' = [wk EXCEPT ![s] = [w EXCEPT !.pc = "cancelwait",
                                                      !.cancel = FALSE]]
                 /\ \E c1 \in Terminate(child[Cid(s)]) :
                      child' = [child EXCEPT ![Cid(s)] = c1]
                 /\ UNCHANGED slot
            ELSE /\ wk' = [wk EXCEPT ![s] = Cancelled(w)]
                 /\ slot' = [slot EXCEPT ![sid].status = "stopped"]
                 /\ UNCHANGED child
       /\ UNCHANGED <<job, trk, procLists, prog, curProg, run, stop, startPc,
                      nStarts, nStops, mountOk, lastStart, lastStop, pub,
                      fatal, stopAcc>>
       /\ UNCHANGED nonEngineVars

\* the wait of the CancelledError handler is over: kill on TimeoutError, raise.
\* stop_job cancels the tasks only after every tracked child is dead, so with
\* one run at a time no task is cancelled while its child is alive, and this
\* segment is part of no next-state relation below
WorkerCancelWait(s) ==
    LET w == wk[s]
        sid == <<w.sr, s[2]>>
    IN /\ w.pc = "cancelwait"
       /\ wk' = [wk EXCEPT ![s] = Cancelled(w)]
       /\ slot' = [slot EXCEPT ![sid].status = "stopped"]
       /\ child' = [child EXCEPT ![Cid(s)] = Kill(@)]
       /\ UNCHANGED <<job, trk, procLists, prog, curProg, run, stop, startPc,
                      nStarts, nStops, mountOk, lastStart, lastStop, pub,
                      fatal, stopAcc>>
       /\ UNCHANGED nonEngineVars

\* ------------------------------------------------------------------ stop_job
\* the WorkerProgress objects of progress object pr
SlotsOf(pr) == {<<pr.wrun, i>> : i \in 1..pr.wn}

\* stop_job up to the `await` of its first publish
StopJob ==
    /\ stop.pc = "idle"
    /\ nStops < MaxStops
    /\ IF ~trk.running_processes
         THEN /\ lastStop' = "Job is not running"
              /\ UNCHANGED <<trk, slot, pub, stop, stopAcc>>
         ELSE LET sl == [s \in WorkerIds |->
                           IF s \in SlotsOf(prog[curProg])
                              /\ slot[s].status = "running"
                             THEN [slot[s] EXCEPT !.status = "stopping"]
                             ELSE slot[s]]
              IN /\ trk' = [trk EXCEPT !.stop_requested = "true"]
                 /\ slot' = sl
                 /\ pub' = Notify("stopping", prog[curProg], sl)
                 /\ stop' = [stop EXCEPT !.pc = "notified"]
                 /\ stopAcc' = stopAcc \cup {trk.running_tasks}
                 /\ UNCHANGED lastStop
    /\ UNCHANGED <<job, procLists, child, prog, curProg, run, wk, startPc,
                   nStarts, nStops, mountOk, lastStart, fatal>>
    /\ UNCHANGED nonEngineVars

\* the `finally:` of stop_job and "Update status", up to
\* `await self.save_jobs()`
StopFinally ==
    /\ trk' = NoTracking
    /\ job' = [job EXCEPT !.status = "stopped", !.last_run_status = "stopped",
                          !.last_run_message = "Stopped by user"]
    /\ stop' = [stop EXCEPT !.pc = "saving"]

\* "Cancel worker tasks": cancel() every task that is not done, then await
\* their gather; with no task list the `finally:` follows at once
StopAfterLoop ==
    IF trk.running_tasks # 0
      THEN /\ wk' = [s \in WorkerIds |->
                       IF s \in RunWorkers(trk.running_tasks)
                          /\ wk[s].pc # "done"
                         THEN [wk[s] EXCEPT !.cancel = TRUE] ELSE wk[s]]
           /\ stop' = [stop EXCEPT !.pc = "gathering",
                                   !.tasks = trk.running_tasks]
           /\ UNCHANGED <<job, trk>>
      ELSE /\ StopFinally
           /\ UNCHANGED wk

\* the publish returned: terminate every tracked process, then wait for the
\* first
StopTerminate ==
    /\ stop.pc = "notified"
    /\ IF trk.worker_processes # 0
         THEN LET l == procLists[trk.worker_processes]
                  \* `if proc.returncode is None: proc.terminate()`
                  ids == {c \in {l[x] : x \in DOMAIN l} : child[c] = "run"}
              IN /\ \E f \in [ids -> {"term", "ign"}] :
                      child' = [c \in DOMAIN child |->
                                  IF c \in ids THEN f[c] ELSE child[c]]
                 /\ IF l = << >>
                      THEN StopAfterLoop
                      ELSE /\ stop' = [stop EXCEPT !.pc = "waiting", !.k = 1,
                                         !.list = trk.worker_processes]
                           /\ UNCHANGED <<job, trk, wk>>
         ELSE /\ StopAfterLoop
              /\ UNCHANGED child
    /\ UNCHANGED <<procLists, prog, curProg, slot, run, startPc, nStarts,
                   nStops, mountOk, lastStart, lastStop, pub, fatal, stopAcc>>
    /\ UNCHANGED nonEngineVars

\* `await asyncio.wait_for(proc.wait(), timeout=5.0)` for the k-th tracked
\* process is over: kill() on TimeoutError; then the next process, or the
\* cancellation of the tasks
StopWait ==
    /\ stop.pc = "waiting"
    /\ LET l == procLists[stop.list]
       IN /\ child' = [child EXCEPT ![l[stop.k]] = Kill(@)]
          /\ IF stop.k < Len(l)
               THEN /\ stop' = [stop EXCEPT !.k = @ + 1]
                    /\ UNCHANGED <<job, trk, wk>>
               ELSE StopAfterLoop
    /\ UNCHANGED <<procLists, prog, curProg, slot, run, startPc, nStarts,
                   nStops, mountOk, lastStart, lastStop, pub, fatal, stopAcc>>
    /\ UNCHANGED nonEngineVars

\* the gather of the worker tasks returned
StopGathered ==
    /\ stop.pc = "gathering"
    /\ \A s \in RunWorkers(stop.tasks) : wk[s].pc = "done"
    /\ StopFinally
    /\ UNCHANGED <<procLists, child, prog, curProg, slot, run, wk, startPc,
                   nStarts, nStops, mountOk, lastStart, lastStop, pub, fatal,
                   stopAcc>>
    /\ UNCHANGED nonEngineVars

\* save_jobs returned: the progress record is set to stopped and published
StopSaved ==
    /\ stop.pc = "saving"
    /\ LET sl == [s \in WorkerIds |->
                    IF s \in SlotsOf(prog[curProg])
                       /\ slot[s].status \in {"running", "stopping"}
                      THEN [slot[s] EXCEPT !.status = "stopped"]
                      ELSE slot[s]]
           pr == [prog[curProg] EXCEPT !.status = "stopped"]
       IN /\ slot' = sl
          /\ prog' = [prog EXCEPT ![curProg] = pr]
          /\ pub' = Notify("stopped", pr, sl)
    /\ stop' = [pc |-> "idle", list |-> 0, k |-> 0, tasks |-> 0]
    /\ nStops' = nStops + 1
    /\ lastStop' = "Job stopped"
    /\ UNCHANGED <<job, trk, procLists, child, curProg, run, wk, startPc,
                   nStarts, mountOk, lastStart, fatal, stopAcc>>
    /\ UNCHANGED nonEngineVars

\* ------------------------------------------------------------------ the mount
\* the FUSE daemon dies: every later probe fails
MountDies ==
    /\ mountOk
    /\ mountOk' = FALSE
    /\ UNCHANGED <<job, trk, procLists, child, prog, curProg, slot, run, wk,
                   stop, startPc, nStarts, nStops, lastStart, lastStop, pub,
                   fatal, stopAcc>>
    /\ UNCHANGED nonEngineVars

\* ------------------------------------------------------------------ engine
Next ==
    \/ StartJob(MaxStarts, GoodStart)
    \/ StartSpawn
    \/ StopJob
    \/ StopTerminate
    \/ StopWait
    \/ StopGathered
    \/ StopSaved
    \/ MountDies
    \/ \E r \in Runs : RunBegin(r)
    \/ \E r \in Runs : RunScanDone(r, ItemLists)
    \/ \E r \in Runs : RunPreflightDone(r)
    \/ \E r \in Runs : RunPreflightFails(r)
    \/ \E r \in Runs : RunGathered(r)
    \/ \E r \in Runs : RunLogged(r)
    \/ \E r \in Runs : RunSaved(r)
    \/ \E s \in WorkerIds : WorkerTop(s)
    \/ \E s \in WorkerIds : WorkerSpawned(s)
    \/ \E s \in WorkerIds : WorkerReadEof(s)
    \/ \E s \in WorkerIds : WorkerReadTimeout(s)
    \/ \E s \in WorkerIds : WorkerReadError(s)
    \/ \E s \in WorkerIds : WorkerReadFatal(s)
    \/ \E s \in WorkerIds : WorkerReadProgress(s)
    \/ \E s \in WorkerIds : WorkerNotifiedMid(s)
    \/ \E s \in WorkerIds : WorkerTermWait(s)
    \/ \E s \in WorkerIds : WorkerWaitExit(s)
    \/ \E s \in WorkerIds : WorkerNotifiedDone(s)
    \/ \E s \in WorkerIds : WorkerCancelled(s)

Spec == Init /\ [][Next]_vars

\* several starts of the job, over an empty source directory: the worker of
\* a run has no item and spawns no child
NextStarts ==
    \/ StartJob(MaxRuns, StartInputs)
    \/ StartSpawn
    \/ StopJob
    \/ StopTerminate
    \/ StopGathered
    \/ StopSaved
    \/ MountDies
    \/ \E r \in Runs : RunBegin(r)
    \/ \E r \in Runs : RunScanDone(r, EmptyLists)
    \/ \E r \in Runs : RunPreflightDone(r)
    \/ \E r \in Runs : RunPreflightFails(r)
    \/ \E r \in Runs : RunGathered(r)
    \/ \E r \in Runs : RunSaved(r)
    \/ \E s \in WorkerIds : WorkerTop(s)
    \/ \E s \in WorkerIds : WorkerCancelled(s)

SpecStarts == Init /\ [][NextStarts]_vars

\* start_job calls of every kind against the runs of a job with nothing to
\* copy and no stop_job call
NextReject ==
    \/ StartJob(MaxRuns, StartInputs)
    \/ StartSpawn
    \/ MountDies
    \/ \E r \in Runs : RunBegin(r)
    \/ \E r \in Runs : RunScanDone(r, EmptyLists)
    \/ \E r \in Runs : RunPreflightDone(r)
    \/ \E r \in Runs : RunPreflightFails(r)
    \/ \E r \in Runs : RunGathered(r)
    \/ \E r \in Runs : RunSaved(r)
    \/ \E s \in WorkerIds : WorkerTop(s)

SpecReject == Init /\ [][NextReject]_vars

\* one run of the job that no stop_job call interferes with
NextRun ==
    \/ StartJob(1, GoodStart)
    \/ StartSpawn
    \/ MountDies
    \/ \E r \in Runs : RunBegin(r)
    \/ \E r \in Runs : RunScanDone(r, ItemLists)
    \/ \E r \in Runs : RunPreflightDone(r)
    \/ \E r \in Runs : RunPreflightFails(r)
    \/ \E r \in Runs : RunGathered(r)
    \/ \E r \in Runs : RunLogged(r)
    \/ \E r \in Runs : RunSaved(r)
    \/ \E s \in WorkerIds : WorkerTop(s)
    \/ \E s \in WorkerIds : WorkerSpawned(s)
    \/ \E s \in WorkerIds : WorkerReadEof(s)
    \/ \E s \in WorkerIds : WorkerReadTimeout(s)
    \/ \E s \in WorkerIds : WorkerReadError(s)
    \/ \E s \in WorkerIds : WorkerReadFatal(s)
    \/ \E s \in WorkerIds : WorkerReadProgress(s)
    \/ \E s \in WorkerIds : WorkerNotifiedMid(s)
    \/ \E s \in WorkerIds : WorkerTermWait(s)
    \/ \E s \in WorkerIds : WorkerWaitExit(s)
    \/ \E s \in WorkerIds : WorkerNotifiedDone(s)

SpecRun == Init /\ [][NextRun]_vars

\* a scan that finds one item
OneItemLists == {<<SmallItem>>}

\* runs of the job that overlap: a start_job call accepted while an earlier
\* run is in its scan or preflight, with stop_job calls, on a healthy mount
\* and with children that do not exit by themselves
NextOverlap ==
    \/ StartJob(MaxRuns, GoodStart)
    \/ StartSpawn
    \/ StopJob
    \/ StopTerminate
    \/ StopWait
    \/ StopGathered
    \/ StopSaved
    \/ \E r \in Runs : RunBegin(r)
    \/ \E r \in Runs : RunScanDone(r, OneItemLists)
    \/ \E r \in Runs : RunPreflightDone(r)
    \/ \E r \in Runs : RunGathered(r)
    \/ \E r \in Runs : RunLogged(r)
    \/ \E r \in Runs : RunSaved(r)
    \/ \E s \in WorkerIds : WorkerTop(s)
    \/ \E s \in WorkerIds : WorkerSpawned(s)
    \/ \E s \in WorkerIds : WorkerTermWait(s)
    \/ \E s \in WorkerIds : WorkerCancelled(s)

SpecOverlap == Init /\ [][NextOverlap]_vars

SpecBus == Init /\ [][NextBus]_vars

SpecManager == Init /\ [][NextManager]_vars
SpecDelete == Init /\ [][NextDelete]_vars
SpecSaves == Init /\ [][NextSaves]_vars

\* ------------------------------------------------------------------ job store
\* save_jobs calls in one behaviour of SpecStore
MaxSaves == 3
\* crashes (each followed by a restart) in one behaviour of SpecStore
MaxCrashes == 1
\* the largest run_count a job reaches
MaxRunCount == 1

JobIds == {"a", "b"}

\* values of datetime.utcnow(): seconds and microseconds
DateTimes == {[sec |-> 1, usec |-> 0], [sec |-> 2, usec |-> 5]}

\* Python's None in a datetime field and in a status field
None == [none |-> TRUE]
NoStatus == "None"

\* JSON's null where a quoted date is expected
NullText == << >>

\* SyncJob(**job_data.model_dump()): the defaults of the model
NewJob(id) ==
    [id |-> id, status |-> "idle", last_run_at |-> None,
     last_run_status |-> NoStatus, run_count |-> 0]

\* json.dumps(..., default=str) on a datetime: str(dt), which leaves the
\* microseconds out when they are zero
DateTimeStr(d) ==
    IF d.usec = 0 THEN <<d.sec>> ELSE <<d.sec, d.usec>>

\* pydantic's parse of such a string
DateTimeParse(t) ==
    IF Len(t) = 1 THEN [sec |-> t[1], usec |-> 0]
    ELSE [sec |-> t[1], usec |-> t[2]]

\* job.model_dump() written by json.dumps: None is null, a datetime its str()
DumpJob(j) ==
    [id |-> j.id, status |-> j.status,
     last_run_at |-> IF j.last_run_at = None THEN NullText
                     ELSE DateTimeStr(j.last_run_at),
     last_run_status |-> IF j.last_run_status = NoStatus THEN "null"
                         ELSE j.last_run_status,
     run_count |-> j.run_count]

\* {"jobs": [job.model_dump() for job in self.jobs.values()]}
Dump(J) == [i \in DOMAIN J |-> DumpJob(J[i])]

\* a parse that leaves run_count at the default of the model
ParseJobDefaultCount(jd) ==
    [id |-> jd.id, status |-> jd.status,
     last_run_at |-> IF jd.last_run_at = NullText THEN None
                     ELSE DateTimeParse(jd.last_run_at),
     last_run_status |-> IF jd.last_run_status = "null" THEN NoStatus
                         ELSE jd.last_run_status,
     run_count |-> 0]

\* SyncJob(**job_data)
ParseJob(jd) ==
    [id |-> jd.id, status |-> jd.status,
     last_run_at |-> IF jd.last_run_at = NullText THEN None
                     ELSE DateTimeParse(jd.last_run_at),
     last_run_status |-> IF jd.last_run_status = "null" THEN NoStatus
                         ELSE jd.last_run_status,
     run_count |-> jd.run_count]

\* a load that keeps the persisted status
KeepStatus(j) == j

\* job.status = JobStatus.IDLE
ResetStatus(j) == [j EXCEPT !.status = "idle"]

\* a file holding the whole of document d
Complete(d) == [kind |-> "complete", doc |-> d]
\* a file that was opened for writing and holds less than a whole document
Partial == [kind |-> "partial"]

\* the loop body of load_jobs for one file that holds a whole document
LoadDoc(d) == [i \in DOMAIN d |-> ResetStatus(ParseJob(d[i]))]

\* load_jobs into an empty self.jobs: the jobs file first, then the backup;
\* a file that does not exist is skipped, one that does not parse is given up
LoadFrom(dk) ==
    IF dk.jobs.kind = "complete" THEN LoadDoc(dk.jobs.doc)
    ELSE IF dk.backup.kind = "complete" THEN LoadDoc(dk.backup.doc)
    ELSE [i \in {} |-> 0]

\* writing the whole document straight into the jobs file
JobsFile == "jobs"

\* temp_file = settings.jobs_file + ".tmp"
TempFile == "tmp"

\* os.replace(src, dst)
Replace(dk, src, dst) ==
    IF src = dst THEN dk
    ELSE [dk EXCEPT ![dst] = dk[src], ![src] = Absent]

\* save_jobs up to the backup copy: json_content = json.dumps(data, ...)
SaveBegin(J) ==
    /\ save.pc = "idle"
    /\ nSaves < MaxSaves
    /\ jobs' = J
    /\ save' = [pc |-> "backup", doc |-> Dump(J)]
    /\ sv' = [prior |-> disk.jobs, J |-> J, done |-> FALSE, at |-> "none"]
    /\ fresh' = FALSE
    /\ nSaves' = nSaves + 1
    /\ UNCHANGED <<disk, nCrashes, ld>>
    /\ UNCHANGED nonStoreVars

\* create_job: self.jobs[job.id] = job; await self.save_jobs()
CreateJob(id) ==
    /\ id \notin DOMAIN jobs
    /\ SaveBegin((id :> NewJob(id)) @@ jobs)

\* start_job: job.status = RUNNING; job.last_run_at = utcnow(); save_jobs()
StartJobSave(id, now) ==
    /\ id \in DOMAIN jobs
    /\ jobs[id].status # "running"
    /\ SaveBegin([jobs EXCEPT ![id].status = "running",
                              ![id].last_run_at = now])

\* _run_sync's end: status and last_run_status, run_count += 1; save_jobs()
RunSyncSave(id, st) ==
    /\ id \in DOMAIN jobs
    /\ jobs[id].status = "running"
    /\ jobs[id].run_count < MaxRunCount
    /\ SaveBegin([jobs EXCEPT ![id].status = st,
                              ![id].last_run_status = st,
                              ![id].run_count = @ + 1])

\* a step of save_jobs that changes the files and moves on to `pc`
SaveStep(from, to, dk) ==
    /\ save.pc = from
    /\ save' = [save EXCEPT !.pc = to]
    /\ disk' = dk
    /\ UNCHANGED <<jobs, sv, fresh, nSaves, nCrashes, ld>>
    /\ UNCHANGED nonStoreVars

\* `if os.path.exists(settings.jobs_file)` is false: no backup is made
SaveNoBackup ==
    /\ disk.jobs = Absent
    /\ SaveStep("backup", "open", disk)

\* shutil.copy2 has opened the backup for writing
SaveCopyBegin ==
    /\ disk.jobs # Absent
    /\ SaveStep("backup", "copying", [disk EXCEPT !.backup = Partial])

\* shutil.copy2 raised before it touched the backup: a warning is printed
SaveCopyRefused ==
    /\ disk.jobs # Absent
    /\ SaveStep("backup", "open", disk)

\* shutil.copy2 returned
SaveCopyDone ==
    /\ save.pc = "copying"
    /\ SaveStep("copying", "open", [disk EXCEPT !.backup = disk.jobs])

\* shutil.copy2 raised midway: a warning is printed, the backup stays cut
SaveCopyBroken ==
    /\ save.pc = "copying"
    /\ SaveStep("copying", "open", disk)

\* aiofiles.open(temp_file, "w")
SaveOpen ==
    /\ save.pc = "open"
    /\ SaveStep("open", "writing", [disk EXCEPT ![TempFile] = Partial])

\* await f.write(json_content), and the file is closed
SaveWrite ==
    /\ save.pc = "writing"
    /\ SaveStep("writing", "replace",
                [disk EXCEPT ![TempFile] = Complete(save.doc)])

\* the write raised: "Error saving jobs" is printed and save_jobs returns
SaveWriteFails ==
    /\ save.pc = "writing"
    /\ SaveStep("writing", "idle", disk)

\* os.replace(temp_file, settings.jobs_file)
SaveReplace ==
    /\ save.pc = "replace"
    /\ save' = [save EXCEPT !.pc = "idle"]
    /\ disk' = Replace(disk, TempFile, JobsFile)
    /\ sv' = [sv EXCEPT !.done = TRUE]
    /\ UNCHANGED <<jobs, fresh, nSaves, nCrashes, ld>>
    /\ UNCHANGED nonStoreVars

\* the process dies: memory is lost, the files stay as they are
Crash ==
    /\ save.pc # "down"
    /\ nCrashes < MaxCrashes
    /\ save' = [pc |-> "down", doc |-> << >>]
    /\ jobs' = [i \in {} |-> 0]
    /\ sv' = [sv EXCEPT !.at = save.pc]
    /\ fresh' = FALSE
    /\ nCrashes' = nCrashes + 1
    /\ UNCHANGED <<disk, nSaves, ld>>
    /\ UNCHANGED nonStoreVars

\* the JSONDecodeError handler: the content of an unparseable jobs file is
\* written to the .corrupted sibling; `copied` tells whether that write went
\* through
CorruptedCopy(dk, copied) ==
    IF dk.jobs.kind = "partial" /\ copied
    THEN [dk EXCEPT !.corrupted = dk.jobs]
    ELSE dk

\* a load that gives up when the .corrupted copy cannot be written
LoadUnlessCopyFails(dk, copied) ==
    IF dk.jobs.kind = "partial" /\ ~copied
    THEN [jobs |-> [i \in {} |-> 0], raised |-> TRUE]
    ELSE [jobs |-> LoadFrom(dk), raised |-> FALSE]

\* what load_jobs leaves in self.jobs and whether it raised: a failed write
\* of the .corrupted copy is swallowed by `except Exception: pass`, and every
\* other error of the loop body by the handlers of the outer try
LoadOutcome(dk, copied) ==
    [jobs |-> LoadFrom(dk), raised |-> FALSE]

\* the restart: load_jobs of a new manager
LoadJobs ==
    /\ save.pc = "down"
    /\ \E copied \in BOOLEAN :
         /\ jobs' = LoadOutcome(disk, copied).jobs
         /\ disk' = CorruptedCopy(disk, copied)
         /\ ld' = [disk |-> disk,
                   copy |-> IF disk.jobs.kind # "partial" THEN "none"
                            ELSE IF copied THEN "written" ELSE "failed",
                   raised |-> LoadOutcome(disk, copied).raised]
    /\ save' = [save EXCEPT !.pc = "idle"]
    /\ fresh' = TRUE
    /\ UNCHANGED <<sv, nSaves, nCrashes>>
    /\ UNCHANGED nonStoreVars

NextStore ==
    \/ \E id \in JobIds : CreateJob(id)
    \/ \E id \in JobIds, now \in DateTimes : StartJobSave(id, now)
    \/ \E id \in JobIds, st \in {"completed", "failed"} : RunSyncSave(id, st)
    \/ SaveNoBackup
    \/ SaveCopyBegin
    \/ SaveCopyRefused
    \/ SaveCopyDone
    \/ SaveCopyBroken
    \/ SaveOpen
    \/ SaveWrite
    \/ SaveWriteFails
    \/ SaveReplace
    \/ Crash
    \/ LoadJobs

SpecStore == Init /\ [][NextStore]_vars

\* files the environment may damage
FaultFiles == {"jobs", "backup"}

\* the jobs file or its backup is damaged from outside the program (a disk
\* fault, a manual edit): it is cut short or it is gone
DiskFault(f, to) ==
    /\ save.pc = "down"
    /\ disk[f] # Absent
    /\ disk[f] # to
    /\ disk' = [disk EXCEPT ![f] = to]
    /\ UNCHANGED <<jobs, save, sv, fresh, nSaves, nCrashes, ld>>
    /\ UNCHANGED nonStoreVars

NextLoad ==
    \/ NextStore
    \/ \E f \in FaultFiles, to \in {Partial, Absent} : DiskFault(f, to)

\* the job store with files that may be damaged while the program is down
SpecLoad == Init /\ [][NextLoad]_vars

\* entries in the "jobs" list of a file
MaxEntries == 2

\* a job_data of the list: what model_dump wrote for a job, with `valid`
\* telling whether SyncJob(**job_data) accepts it (a file written by hand or
\* by another version may hold an entry that fails validation)
JobData ==
    {[data |-> DumpJob([NewJob(id) EXCEPT !.run_count = c]), valid |-> v] :
        id \in JobIds, c \in {0, 1}, v \in BOOLEAN}

\* a file that parses as JSON, with its "jobs" list in file order
JobList(es) == [kind |-> "list", entries |-> es]

\* what the jobs file and its backup may hold
FileContents ==
    {Absent, Partial}
        \cup {JobList(es) : es \in UNION {[1..l -> JobData] : l \in 0..MaxEntries}}

RECURSIVE LoadEntries(_, _)
\* `for job_data in data.get("jobs", []):` into self.jobs = J; a job_data
\* that fails validation raises out of the loop, past the `return`
LoadEntries(J, es) ==
    IF es = << >> THEN [jobs |-> J, returned |-> TRUE]
    ELSE IF ~Head(es).valid THEN [jobs |-> J, returned |-> FALSE]
    ELSE LET j == ResetStatus(ParseJob(Head(es).data))
         IN LoadEntries([i \in DOMAIN J \cup {j.id} |->
                            IF i = j.id THEN j ELSE J[i]], Tail(es))

\* the loop body of load_jobs for one file: a missing file is skipped, a
\* JSONDecodeError and every other Exception are printed
LoadFile(J, f) ==
    IF f.kind = "list" THEN LoadEntries(J, f.entries)
    ELSE [jobs |-> J, returned |-> FALSE]

\* load_jobs of a new manager: `for filepath in [settings.jobs_file,
\* backup_file]`
LoadJobsFrom(canonical, backup) ==
    LET first == LoadFile([i \in {} |-> 0], canonical)
    IN IF first.returned THEN first.jobs
       ELSE LoadFile(first.jobs, backup).jobs

\* a load_jobs call on a jobs file and a backup
LoadJobsCall ==
    /\ fn.op = "none"
    /\ \E canonical \in FileContents, backup \in FileContents :
         fn' = [op |-> "load",
                arg |-> [jobs |-> canonical, backup |-> backup],
                out |-> LoadJobsFrom(canonical, backup)]
    /\ UNCHANGED <<engineVars, storeVars, otherVars>>

NextEntries == LoadJobsCall

SpecEntries == Init /\ [][NextEntries]_vars

\* ------------------------------------------------------------------ distributor
\* items of the longest list handed to _distribute_items
MaxItems == 5
\* the largest byte count of an item of those lists
MaxItemBytes == 3
\* the largest num_workers and the largest parallel_jobs handed in
MaxBins == 2

\* the byte counts of the two lists the specification works through
ExampleSizes == {<<9, 8, 5, 4, 2, 2>>, <<1000, 600, 400>>}

\* the byte counts of the item lists, in list order
SizeLists ==
    UNION {[1..l -> 0..MaxItemBytes] : l \in 0..MaxItems} \cup ExampleSizes

\* items.sort(key=lambda x: x[2], reverse=True) has been applied
SortedDesc(sizes) ==
    \A k \in 1..(Len(sizes) - 1) : sizes[k] >= sizes[k + 1]

\* what _get_top_level_items may return
SortedSizeLists == {sizes \in SizeLists : SortedDesc(sizes)}

\* the (name, files, bytes) tuples with these byte counts; the name of an
\* item is its place in the list
ItemsOf(sizes) ==
    [k \in 1..Len(sizes) |-> [name |-> k, files |-> 1, bytes |-> sizes[k]]]

\* the two calls the specification works through
ExampleCalls == {<<<<9, 8, 5, 4, 2, 2>>, 3>>, <<<<1000, 600, 400>>, 2>>}

\* the (item sizes, num_workers) of the calls of _distribute_items
DistributeCalls ==
    {<<sizes, n>> : sizes \in SizeLists, n \in 1..MaxBins} \cup ExampleCalls

\* self._distribute_items(items, num_workers) called on its own
DistributeCall ==
    /\ fn.op = "none"
    /\ \E call \in DistributeCalls :
         fn' = [op |-> "distribute",
                arg |-> [items |-> ItemsOf(call[1]), n |-> call[2]],
                out |-> DistributeItems(ItemsOf(call[1]), call[2])]
    /\ UNCHANGED <<engineVars, storeVars, otherVars>>

\* _run_sync: num_workers = min(job.parallel_jobs, len(items)) if items else 1;
\* worker_items = self._distribute_items(items, num_workers)
RunSyncDistribute ==
    /\ fn.op = "none"
    /\ \E sizes \in SortedSizeLists, parallel_jobs \in 1..MaxBins :
         LET items == ItemsOf(sizes)
             n == NumWorkers(items, parallel_jobs)
         IN fn' = [op |-> "run_sync",
                   arg |-> [items |-> items, n |-> n],
                   out |-> DistributeItems(items, n)]
    /\ UNCHANGED <<engineVars, storeVars, otherVars>>

NextDist ==
    \/ DistributeCall
    \/ RunSyncDistribute

SpecDist == Init /\ [][NextDist]_vars

\* ------------------------------------------------------------------ file names
\* A name is a sequence of runs [c |-> character, n |-> how many times in a
\* row], no two neighbouring runs of the same character: names of several
\* hundred characters stay small.

\* the byte limit of a file name, in both functions
NameLimit == 255
\* runs of the longest name handed to the two functions
MaxNameRuns == 3

\* how long a run of an enumerated name may be: one character, or one short
\* of the limit
RunLengths == {1, 254}

\* the characters of the enumerated names: a letter, a two-byte letter, the
\* space, the dot, two of the forbidden characters, NUL and a control character
NameChars == {"a", "é", " ", ".", ":", "*", "NUL", "SOH"}

\* len(c.encode('utf-8'))
CharBytes(c) == IF c = "é" THEN 2 ELSE 1

\* CONTROL_CHARS = set(chr(i) for i in range(32)), and `ord(c) >= 32`: the
\* first, the second and the last of them stand for all
ControlChars == {"NUL", "SOH", "US"}

\* PROBLEMATIC_CHARS, in the order of the dict
ProblematicChars ==
    << [c |-> "\\", tag |-> "backslash"],
       [c |-> ":", tag |-> "colon"],
       [c |-> "*", tag |-> "asterisk"],
       [c |-> "?", tag |-> "question_mark"],
       [c |-> "\"", tag |-> "double_quote"],
       [c |-> "<", tag |-> "less_than"],
       [c |-> ">", tag |-> "greater_than"],
       [c |-> "|", tag |-> "pipe"],
       [c |-> "NUL", tag |-> "null_byte"] >>

\* CHAR_REPLACEMENTS; "" stands for the empty replacement
CharReplacements ==
    [c \in {"\\", ":", "*", "?", "\"", "<", ">", "|", "NUL"} |->
        CASE c = "\\" -> "-"
          [] c = ":" -> "-"
          [] c = "*" -> "_"
          [] c = "?" -> "_"
          [] c = "\"" -> "'"
          [] c = "<" -> "("
          [] c = ">" -> ")"
          [] c = "|" -> "-"
          [] c = "NUL" -> ""]

RECURSIVE Canon(_)
\* neighbouring runs of one character are one run
Canon(rs) ==
    IF Len(rs) <= 1 THEN rs
    ELSE LET t == Canon(Tail(rs))
         IN IF Head(rs).c = Head(t).c
            THEN <<[c |-> Head(rs).c, n |-> Head(rs).n + Head(t).n]>>
                     \o Tail(t)
            ELSE <<Head(rs)>> \o t

\* the name spelled by a sequence of characters
NameOf(chars) == Canon([k \in DOMAIN chars |-> [c |-> chars[k], n |-> 1]])

\* the characters that occur in a name
CharsIn(name) == {name[k].c : k \in DOMAIN name}

RECURSIVE ByteLen(_)
\* len(name.encode('utf-8'))
ByteLen(name) ==
    IF name = << >> THEN 0
    ELSE Head(name).n * CharBytes(Head(name).c) + ByteLen(Tail(name))

\* name.startswith(ch) and name.endswith(ch)
StartsWith(name, ch) == name # << >> /\ name[1].c = ch
EndsWith(name, ch) == name # << >> /\ name[Len(name)].c = ch

\* the trailing-dot rule without its exception for '.' and '..'
TrailingDotAlways(name) == EndsWith(name, ".")

\* name.endswith('.') and name != '.' and name != '..'
TrailingDot(name) ==
    /\ EndsWith(name, ".")
    /\ name # <<[c |-> ".", n |-> 1]>>
    /\ name # <<[c |-> ".", n |-> 2]>>

\* _check_filename(name, rel_path): the issue type, "none" for None
CheckFilename(name) ==
    LET hits == {i \in DOMAIN ProblematicChars :
                     ProblematicChars[i].c \in CharsIn(name)}
    IN IF hits # {}
         THEN ProblematicChars[CHOOSE i \in hits : \A j \in hits : i <= j].tag
       ELSE IF CharsIn(name) \cap ControlChars # {} THEN "control_char"
       ELSE IF StartsWith(name, " ") THEN "leading_space"
       ELSE IF EndsWith(name, " ") THEN "trailing_space"
       ELSE IF TrailingDot(name) THEN "trailing_dot"
       ELSE IF ByteLen(name) > NameLimit THEN "too_long"
       ELSE "none"

\* for char, replacement in CHAR_REPLACEMENTS.items(): result.replace(...)
ReplaceChars(name) ==
    LET kept == SelectSeq(name, LAMBDA r :
                    r.c \notin DOMAIN CharReplacements
                    \/ CharReplacements[r.c] # "")
    IN Canon([k \in DOMAIN kept |->
                IF kept[k].c \in DOMAIN CharReplacements
                THEN [kept[k] EXCEPT !.c = CharReplacements[kept[k].c]]
                ELSE kept[k]])

\* ''.join(c for c in result if ord(c) >= 32)
RemoveControl(name) ==
    Canon(SelectSeq(name, LAMBDA r : r.c \notin ControlChars))

\* result.strip(' ')
StripSpaces(name) ==
    LET a == IF StartsWith(name, " ") THEN Tail(name) ELSE name
    IN IF EndsWith(a, " ") THEN SubSeq(a, 1, Len(a) - 1) ELSE a

\* result.rstrip('.')
RStripDots(name) ==
    IF EndsWith(name, ".") THEN SubSeq(name, 1, Len(name) - 1) ELSE name

\* the placeholder "_renamed_"
Placeholder == NameOf(<<"_", "r", "e", "n", "a", "m", "e", "d", "_">>)

\* os.path.splitext(result): the extension starts at the last dot, unless
\* only dots come before it
SplitExt(name) ==
    LET dots == {k \in DOMAIN name : name[k].c = "."}
    IN IF dots = {} THEN [base |-> name, ext |-> << >>]
       ELSE LET j == CHOOSE k \in dots : \A i \in dots : i <= k
            IN IF j = 1 THEN [base |-> name, ext |-> << >>]
               ELSE [base |-> SubSeq(name, 1, j - 1)
                                \o (IF name[j].n > 1
                                    THEN <<[c |-> ".", n |-> name[j].n - 1]>>
                                    ELSE << >>),
                     ext |-> <<[c |-> ".", n |-> 1]>>
                                \o SubSeq(name, j + 1, Len(name))]

RECURSIVE TruncateTo(_, _)
\* while len(base.encode('utf-8')) > max_base: base = base[:-1], for a
\* max_base that is not negative
TruncateTo(base, max_base) ==
    IF ByteLen(base) <= max_base THEN base
    ELSE LET front == SubSeq(base, 1, Len(base) - 1)
             last == base[Len(base)]
         IN IF ByteLen(front) >= max_base THEN TruncateTo(front, max_base)
            ELSE LET k == (max_base - ByteLen(front)) \div CharBytes(last.c)
                 IN IF k = 0 THEN front
                    ELSE front \o <<[c |-> last.c, n |-> k]>>

\* a call that never returns
NoReturn == [ret |-> FALSE, name |-> << >>]

\* normalize_filename(name): whether the call returns, and what.  With a
\* negative max_base the while loop empties base and then runs for ever,
\* since len(b'') > max_base stays true
NormalizeFilename(name) ==
    LET stripped == RStripDots(StripSpaces(RemoveControl(ReplaceChars(name))))
        result == IF stripped = << >> THEN Placeholder ELSE stripped
    IN IF ByteLen(result) > NameLimit
       THEN LET se == SplitExt(result)
                max_base == NameLimit - ByteLen(se.ext) - 1
            IN IF max_base < 0 THEN NoReturn
               ELSE [ret |-> TRUE,
                     name |-> Canon(TruncateTo(se.base, max_base) \o se.ext)]
       ELSE [ret |-> TRUE, name |-> result]

\* the names the specification works through, two names with several
\* issues, '..', and three names well over the limit
ExampleNames ==
    { NameOf(<<"r", "e", "p", "o", "r", "t", ":", "f", "i", "n", "a", "l",
               ".", "t", "x", "t">>),
      NameOf(<<"n", "o", "t", "e", "s", " ", "*", "d", "r", "a", "f", "t">>),
      NameOf(<<"d", "r", "a", "f", "t", " ">>),
      NameOf(<<"o", "k", ".", "t", "x", "t">>),
      NameOf(<<"*", "a", ":", " ">>),
      NameOf(<<" ", "a", ".", "b", ".">>),
      NameOf(<<".", ".">>),
      <<[c |-> "a", n |-> 300]>>,
      <<[c |-> "a", n |-> 300], [c |-> ".", n |-> 1], [c |-> "a", n |-> 3]>>,
      <<[c |-> "a", n |-> 1], [c |-> ".", n |-> 1], [c |-> "a", n |-> 255]>> }

RunTypes == [c : NameChars, n : RunLengths]

\* every name of up to MaxNameRuns runs, and the examples
Names ==
    {nm \in UNION {[1..l -> RunTypes] : l \in 0..MaxNameRuns} :
        \A k \in 1..(Len(nm) - 1) : nm[k].c # nm[k + 1].c}
    \cup ExampleNames

\* _check_filename(name, ...) and normalize_filename(name) on one name, and
\* normalize_filename on what it returned
CheckAndNormalize ==
    /\ fn.op = "none"
    /\ \E name \in Names :
         LET norm == NormalizeFilename(name)
         IN fn' = [op |-> "name",
                   arg |-> name,
                   out |-> [issue |-> CheckFilename(name),
                            norm |-> norm,
                            again |-> IF norm.ret
                                      THEN NormalizeFilename(norm.name)
                                      ELSE NoReturn]]
    /\ UNCHANGED <<engineVars, storeVars, otherVars>>

NextNames == CheckAndNormalize

SpecNames == Init /\ [][NextNames]_vars

\* ------------------------------------------------------------ rename_file
\* the names of the directory: two with a forbidden character and the names
\* normalize_filename turns them into
ColonName == NameOf(<<"a", ":">>)
StarName == NameOf(<<"a", "*">>)
DashName == NameOf(<<"a", "-">>)
UnderName == NameOf(<<"a", "_">>)
FileNames == {ColonName, StarName, DashName, UnderName}
\* the names of them that _check_filename reports
SourceNames == {ColonName, StarName}

IssuesFrame == UNCHANGED <<engineVars, storeVars, fn, bus, mgr, cs, nest>>

\* the directory as the preflight finds it: a file appears in it
CreateFile(name) ==
    /\ fi.created = 0
    /\ name \notin fi.fs
    /\ fi' = [fi EXCEPT !.fs = @ \cup {name}]
    /\ IssuesFrame

\* add_issue(job_id, ..., filename, ...), as the preflight calls it for a
\* name of the source that _check_filename reports
AddIssue(jid, name) ==
    /\ fi.created < MaxIssues
    /\ name \in fi.fs
    /\ CheckFilename(name) # "none"
    /\ LET norm == NormalizeFilename(name)
           id == fi.created + 1
       IN /\ norm.ret
          /\ fi' = [fi EXCEPT
                 !.created = id,
                 !.issues[id] =
                     [job |-> jid, filename |-> name,
                      suggested |-> IF norm.name # name THEN norm.name
                                    ELSE << >>,
                      status |-> "pending", resolved |-> FALSE]]
    /\ IssuesFrame

\* target_name = new_name or issue.suggested_name
TargetName(is, new_name) == IF new_name # << >> THEN new_name ELSE is.suggested

\* a rename_file that does not look whether the target exists
RenameCheckNoExists(f, i, new_name) ==
    LET is == f.issues[i]
        target == TargetName(is, new_name)
    IN IF is.status = "none" THEN "Issue not found"
       ELSE IF is.status # "pending" THEN "Issue already resolved"
       ELSE IF target = << >> THEN "No target name provided or suggested"
       ELSE IF target = is.filename THEN "New name is same as original"
       ELSE ""

\* a rename_file that looks for the source where it should look for the
\* target
RenameCheckSourceExists(f, i, new_name) ==
    LET is == f.issues[i]
        target == TargetName(is, new_name)
    IN IF is.status = "none" THEN "Issue not found"
       ELSE IF is.status # "pending" THEN "Issue already resolved"
       ELSE IF target = << >> THEN "No target name provided or suggested"
       ELSE IF target = is.filename THEN "New name is same as original"
       ELSE IF is.filename \notin f.fs THEN "Target already exists"
       ELSE ""

\* the returns of rename_file before its `try:`; "" when it gets there
RenameCheck(f, i, new_name) ==
    LET is == f.issues[i]
        target == TargetName(is, new_name)
    IN IF is.status = "none" THEN "Issue not found"
       ELSE IF is.status # "pending" THEN "Issue already resolved"
       ELSE IF target = << >> THEN "No target name provided or suggested"
       ELSE IF target = is.filename THEN "New name is same as original"
       ELSE IF target \in f.fs THEN "Target already exists"
       ELSE ""

\* rename_file(i, new_name) on manager and directory f; moveOk is whether
\* the operating system lets shutil.move succeed on an existing source
RenameFile(f, i, new_name, moveOk) ==
    LET is == f.issues[i]
        target == TargetName(is, new_name)
        msg == RenameCheck(f, i, new_name)
        t == 1 - f.last.t
    IN IF msg # ""
       THEN [f EXCEPT !.last = [t |-> t, id |-> i, arg |-> new_name, ok |-> FALSE, msg |-> msg]]
       ELSE IF is.filename \in f.fs /\ moveOk
       THEN [f EXCEPT !.fs = (@ \ {is.filename}) \cup {target},
                      !.issues[i].status = "renamed",
                      !.issues[i].resolved = TRUE,
                      !.last = [t |-> t, id |-> i, arg |-> new_name, ok |-> TRUE,
                                msg |-> "Renamed to"]]
       ELSE [f EXCEPT !.issues[i].status = "failed",
                      !.last = [t |-> t, id |-> i, arg |-> new_name, ok |-> FALSE,
                                msg |-> "Rename failed"]]

\* a client calls rename_file(i, new_name)
RenameOne(i, new_name) ==
    /\ \E moveOk \in BOOLEAN : fi' = RenameFile(fi, i, new_name, moveOk)
    /\ IssuesFrame

\* skip_issue(i)
SkipIssue(i) ==
    /\ fi.issues[i].status # "none"
    /\ fi' = [fi EXCEPT !.issues[i].status = "skipped",
                        !.issues[i].resolved = TRUE]
    /\ IssuesFrame

\* the pending issues, of one job when jid is given, in the order of the
\* dictionary
PendingList(f, jid) ==
    LET Wanted(i) == /\ f.issues[i].status = "pending"
                     /\ jid # "none" => f.issues[i].job = jid
    IN SelectSeq([i \in IssueIds |-> i], Wanted)

\* a loop of rename_all_pending that counts the successes only
TallyRenamedOnly(b, i, ok) ==
    [b EXCEPT !.todo = Tail(@),
              !.attempts = Append(@, i),
              !.renamed = IF ok THEN @ + 1 ELSE @,
              !.pc = IF Tail(b.todo) = << >> THEN "returned" ELSE "running"]

\* the body of the loop of rename_all_pending after rename_file(i) returned
Tally(b, i, ok) ==
    [b EXCEPT !.todo = Tail(@),
              !.attempts = Append(@, i),
              !.renamed = IF ok THEN @ + 1 ELSE @,
              !.failed = IF ok THEN @ ELSE @ + 1,
              !.errors = IF ok THEN @ ELSE Append(@, i),
              !.pc = IF Tail(b.todo) = << >> THEN "returned" ELSE "running"]

\* rename_all_pending(jid) up to its first rename_file call
RenameAllPending(jid) ==
    /\ fi.batch.pc = "idle"
    /\ LET pending == PendingList(fi, jid)
       IN fi' = [fi EXCEPT !.batch =
                     [NoBatch EXCEPT
                         !.pc = IF pending = << >> THEN "returned"
                                ELSE "running",
                         !.job = jid, !.snap = pending, !.todo = pending,
                         !.total = Len(pending)]]
    /\ IssuesFrame

\* rename_all_pending: `await self.rename_file(issue.id)` for the next issue
\* of the list, and the counting of its result
RenameAllNext ==
    /\ fi.batch.pc = "running"
    /\ \E moveOk \in BOOLEAN :
         LET i == Head(fi.batch.todo)
             f == RenameFile(fi, i, << >>, moveOk)
         IN fi' = [f EXCEPT !.batch = Tally(@, i, f.last.ok)]
    /\ IssuesFrame

\* the names a client passes to rename_file: none, or a name that is the
\* original name of one issue
GivenNames == {<< >>, ColonName}

\* single rename_file calls on the issues of one job
NextRename ==
    \/ \E name \in FileNames : CreateFile(name)
    \/ \E name \in FileNames : AddIssue("A", name)
    \/ \E i \in IssueIds : \E name \in GivenNames : RenameOne(i, name)
    \/ \E i \in IssueIds : SkipIssue(i)

SpecRename == Init /\ [][NextRename]_vars

\* rename_all_pending calls, and the calls of other clients and of the
\* preflight that may run between two of its steps
NextRenameAll ==
    \/ \E name \in SourceNames : CreateFile(name)
    \/ \E jid \in Jobs : \E name \in SourceNames : AddIssue(jid, name)
    \/ \E i \in IssueIds : SkipIssue(i)
    \/ \E jid \in Jobs \cup {"none"} : RenameAllPending(jid)
    \/ RenameAllNext

SpecRenameAll == Init /\ [][NextRenameAll]_vars

\* a name with another character that is replaced by '-'
PipeName == NameOf(<<"a", "|">>)
\* two names of the source with one suggested name, and that name
CollidingNames == {ColonName, PipeName}

\* the remediation of issues whose suggested names collide
NextCollide ==
    \/ \E name \in CollidingNames \cup {DashName} : CreateFile(name)
    \/ \E name \in CollidingNames : AddIssue("A", name)
    \/ \E i \in IssueIds : RenameOne(i, << >>)
    \/ RenameAllPending("none")
    \/ RenameAllNext

SpecCollide == Init /\ [][NextCollide]_vars

\* ------------------------------------------------------------ nested issues
NestedFrame == UNCHANGED <<engineVars, storeVars, fn, bus, mgr, fi, cs>>

\* the names a directory of the source may have, and those of an entry
\* below it
DirNames == {ColonName, PipeName, DashName}
EntryNames == {StarName, ColonName, UnderName}

\* add_issue for the entry `name` of directory `dir`: source_path is
\* os.path.join(source_base, relative_path) as the scan saw it
NewIssue(dir, name) ==
    LET norm == NormalizeFilename(name)
    IN [path |-> Append(dir, name), filename |-> name,
        suggested |-> IF norm.name # name THEN norm.name ELSE << >>,
        status |-> "pending"]

\* the issues _preflight_check_filenames adds for the entries `names` of
\* directory `dir`, in the order the names have
RECURSIVE ScanNames(_, _)
ScanNames(dir, names) ==
    IF names = << >> THEN << >>
    ELSE (IF CheckFilename(Head(names)) # "none"
          THEN <<NewIssue(dir, Head(names))>> ELSE << >>)
             \o ScanNames(dir, Tail(names))

\* _preflight_check_filenames on a source that holds the directory d, the
\* entry e below it, and the files `others`: os.walk goes top-down, so the
\* entries of the source come before those of d
NestedPreflight(d, e, others) ==
    /\ nest.pc = "idle"
    /\ nest' = [NoTree EXCEPT
                   !.pc = "scanned",
                   !.fs = {<<d>>, <<d, e>>} \cup others,
                   !.issues = ScanNames(<< >>, <<d>>) \o ScanNames(<<d>>, <<e>>)]
    /\ NestedFrame

\* shutil.move(src, dst) of an entry and of what is below it
MovePath(fs, src, dst) ==
    {IF Len(q) >= Len(src) /\ SubSeq(q, 1, Len(src)) = src
     THEN dst \o SubSeq(q, Len(src) + 1, Len(q)) ELSE q : q \in fs}

\* os.path.dirname(issue.source_path)
Dirname(path) == SubSeq(path, 1, Len(path) - 1)

\* rename_file(issue.id) on the tree t for the issue at position k, with no
\* name given; moveOk is whether the operating system lets shutil.move
\* succeed on an existing source
NestedRenameFile(t, k, moveOk) ==
    LET is == t.issues[k]
        new_path == Append(Dirname(is.path), is.suggested)
    IN IF is.status # "pending" \/ is.suggested = << >>
            \/ is.suggested = is.filename \/ new_path \in t.fs
       THEN [t EXCEPT !.failed = @ + 1]
       ELSE IF is.path \in t.fs /\ moveOk
       THEN [t EXCEPT !.fs = MovePath(@, is.path, new_path),
                      !.issues[k].status = "renamed",
                      !.renamed = @ + 1]
       ELSE [t EXCEPT !.issues[k].status = "failed",
                      !.failed = @ + 1,
                      !.denied = @ \/ is.path \in t.fs]

\* rename_all_pending() up to its first rename_file call
NestedRenameAll ==
    /\ nest.pc = "scanned"
    /\ LET pending == SelectSeq([k \in DOMAIN nest.issues |-> k],
                                LAMBDA k : nest.issues[k].status = "pending")
       IN nest' = [nest EXCEPT !.todo = pending,
                               !.pc = IF pending = << >> THEN "returned"
                                      ELSE "running"]
    /\ NestedFrame

\* rename_all_pending: rename_file for the next issue of its list, and the
\* counting of the result
NestedRenameNext ==
    /\ nest.pc = "running"
    /\ \E moveOk \in BOOLEAN :
         LET t == NestedRenameFile(nest, Head(nest.todo), moveOk)
         IN nest' = [t EXCEPT !.todo = Tail(@),
                              !.pc = IF Tail(nest.todo) = << >>
                                     THEN "returned" ELSE "running"]
    /\ NestedFrame

\* a scan of a source with a directory and an entry below it, and the
\* rename_all_pending call that follows
NextNested ==
    \/ \E d \in DirNames, e \in EntryNames :
         \E others \in SUBSET {<<DashName>>, <<d, UnderName>>, <<d, DashName>>} :
             NestedPreflight(d, e, others)
    \/ NestedRenameAll
    \/ NestedRenameNext

SpecNested == Init /\ [][NextNested]_vars

\* ------------------------------------------------------------------ claims
RunAlive(r) == run[r].pc \notin {"none", "done"}

Quiet ==
    /\ startPc = "idle"
    /\ stop.pc = "idle"
    /\ \A r \in Runs : ~RunAlive(r)

TerminalWorker == {"stopped", "completed", "failed"}

\* C1: a job runs at most once concurrently: no two run tasks of the job are
\* alive at the same time (a start issued while a run task is alive is
\* rejected)
C1_AtMostOneRunTask ==
    Cardinality({r \in Runs : RunAlive(r)}) <= 1

\* C2: mount fail-fast: when the run task of a run in which a worker detected
\* a fatal mount failure has terminated (and no stop was requested by the
\* user), the job's status and last_run_status are `failed`
C2_MountFailureEndsFailed ==
    \A r \in fatal :
        (run[r].pc = "done" /\ stopAcc = {} /\ stop.pc = "idle")
            => (job.status = "failed" /\ job.last_run_status = "failed")

\* C3: user stop: once stop_job, accepted for a running job in which an item
\* had failed (and no worker saw the mount die), and the run task have both
\* finished, status and last_run_status are `stopped` and last_run_message
\* is "Stopped by user"
C3_UserStopEndsStopped ==
    (stopAcc # {} /\ fatal = {} /\ Quiet /\ \E s \in WorkerIds : wk[s].err)
        => /\ job.status = "stopped"
           /\ job.last_run_status = "stopped"
           /\ job.last_run_message = "Stopped by user"

\* C4: state-machine monotonicity: when the run task of a run that entered
\* `running` has terminated and no call is in flight, the job's status is one
\* of completed, failed, stopped: it is never left `running`
C4_RunEndsTerminal ==
    (nStarts > 0 /\ Quiet) => job.status \in {"completed", "failed", "stopped"}

\* C5: cancellation: once an accepted stop_job has returned and the run task
\* and all worker tasks have finished, every worker of the job has a terminal
\* worker status (none is left pending, running or stopping)
C5_StopLeavesWorkersTerminal ==
    (stopAcc # {} /\ Quiet)
        => \A s \in SlotsOf(prog[curProg]) : slot[s].status \in TerminalWorker

\* C6: no orphaned children: once the run task has finished (and no call is
\* in flight), no child process of the job is still running
C6_NoChildOutlivesRun ==
    Quiet => \A c \in DOMAIN child : ~Alive(child[c])

\* C7: progress sum consistency: at every call of _notify_progress the
\* aggregate files_transferred and bytes_transferred equal the sums over the
\* workers
C7_PublishedSumsAgree ==
    pub.fOk /\ pub.bOk

\* what load_jobs makes of the jobs file as it was when the last save_jobs
\* call began
LoadedPrior == IF sv.prior.kind = "complete" THEN LoadDoc(sv.prior.doc)
               ELSE [i \in {} |-> 0]

\* what load_jobs makes of the document the last save_jobs call wrote
LoadedNew == LoadDoc(Dump(sv.J))

\* C8: atomic-write crash safety: after a crash at any step of a save_jobs
\* call, the jobs file holds the complete document it held before the call or
\* the complete new one, or the backup holds the complete prior document; and
\* load_jobs after the crash recovers the prior or the new job set
C8_CrashLeavesCompleteJobSet ==
    /\ (save.pc = "down" /\ sv.prior # Absent)
           => \/ disk.jobs \in {sv.prior, Complete(Dump(sv.J))}
              \/ disk.backup = sv.prior
    /\ (fresh /\ sv.at # "none") => jobs \in {LoadedPrior, LoadedNew}

\* C8 happens: a crash cut a save_jobs call while the temp file was partly
\* written, the jobs file existed before the call, and the restart loaded
\* the prior job set from it
C8_Witness ==
    /\ fresh
    /\ sv.at = "writing"
    /\ sv.prior # Absent
    /\ disk.tmp = Partial
    /\ jobs = LoadedPrior
    /\ jobs # LoadedNew

\* the last save_jobs call got to its rename and load_jobs then ran in a new
\* manager
SavedThenLoaded == fresh /\ sv.done /\ sv.at = "idle"

C10_LoadedJobsAreIdle ==
    fresh => \A i \in DOMAIN jobs : jobs[i].status = "idle"

\* C10 happens: the jobs file held a job persisted as `running` by start_job,
\* the process crashed, and the restart loaded that job
C10_Witness ==
    /\ fresh
    /\ disk.jobs.kind = "complete"
    /\ \E i \in DOMAIN jobs :
         /\ i \in DOMAIN disk.jobs.doc
         /\ disk.jobs.doc[i].status = "running"

\* a file load_jobs can use: it exists and parses
Usable(f) == f.kind = "complete"

Distributed == fn.op \in {"distribute", "run_sync"}

\* the per-partition byte sums of a distribution
PartLoads(parts) == [w \in DOMAIN parts |-> SumBytes(parts[w])]

MaxOf(f) == CHOOSE x \in {f[w] : w \in DOMAIN f} : \A v \in DOMAIN f : f[v] <= x
MinOf(f) == CHOOSE x \in {f[w] : w \in DOMAIN f} : \A v \in DOMAIN f : f[v] >= x

\* the largest item byte count of a list, 0 for the empty list
LargestItem(items) ==
    IF items = << >> THEN 0 ELSE MaxOf([k \in DOMAIN items |-> items[k].bytes])

ItemSizes(items) == [k \in DOMAIN items |-> items[k].bytes]

\* C12: distributor preservation: _distribute_items returns exactly N
\* partitions, every input item is in exactly one place of exactly one
\* partition and nothing else is in a partition; for size-descending input
\* the largest and the smallest per-partition byte sum differ by at most the
\* largest item byte count
C12_DistributorPreserves ==
    Distributed =>
        LET items == fn.arg.items
            n == fn.arg.n
            out == fn.out
            places == {<<w, i>> \in (1..n) \X (1..Len(items)) :
                           i \in DOMAIN out[w]}
        IN /\ DOMAIN out = 1..n
           /\ \A w \in 1..n : Len(out[w]) <= Len(items)
           /\ \A k \in DOMAIN items :
                Cardinality({pl \in places : out[pl[1]][pl[2]] = items[k]}) = 1
           /\ Cardinality(places) = Len(items)
           /\ SortedDesc(ItemSizes(items)) =>
                MaxOf(PartLoads(out)) - MinOf(PartLoads(out))
                    <= LargestItem(items)

\* C12 happens: a size-descending list of at least three items was spread
\* over at least two workers, two of which got more than one item, and the
\* loads differ by exactly the largest item
C12_Witness ==
    /\ Distributed
    /\ fn.arg.n >= 2
    /\ SortedDesc(ItemSizes(fn.arg.items))
    /\ Cardinality({w \in 1..fn.arg.n : Len(fn.out[w]) >= 2}) >= 2
    /\ LargestItem(fn.arg.items) > 0
    /\ MaxOf(PartLoads(fn.out)) - MinOf(PartLoads(fn.out))
           = LargestItem(fn.arg.items)

\* the largest bin sum when item k goes to bin a[k]
Makespan(items, a, n) ==
    MaxOf([w \in 1..n |->
             SumBytes(SelectSeq(items, LAMBDA it : a[it.name] = w))])

\* C13: distributor balance: for a size-descending list, three times the
\* largest per-partition byte sum is at most four times the largest bin sum
\* of any assignment of the items to N bins (so at most 4/3 of the optimum)
C13_DistributorWithinFourThirds ==
    (Distributed /\ SortedDesc(ItemSizes(fn.arg.items))) =>
        LET items == fn.arg.items
            n == fn.arg.n
            greedy == MaxOf(PartLoads(fn.out))
        IN \A a \in [DOMAIN items -> 1..n] :
               3 * greedy <= 4 * Makespan(items, a, n)

\* C13 happens: a size-descending list for which the greedy distribution is
\* strictly worse than some other assignment
C13_Witness ==
    /\ Distributed
    /\ SortedDesc(ItemSizes(fn.arg.items))
    /\ \E a \in [DOMAIN fn.arg.items -> 1..fn.arg.n] :
         Makespan(fn.arg.items, a, fn.arg.n) < MaxOf(PartLoads(fn.out))

\* the byte sum partition v holds of the items that come before place k of
\* the input
LoadBefore(parts, v, k) ==
    SumBytes(SelectSeq(parts[v], LAMBDA it : it.name < k))

\* C14: distributor algorithm: every item went to the partition whose load
\* from the items before it was minimal, the lowest index among equals, and
\* every partition keeps its items in input order; sizes [9, 8, 5, 4, 2, 2]
\* with N = 3 give [9, 2], [8, 2], [5, 4], and sizes [1000, 600, 400] with
\* N = 2 give [1000], [600, 400]
C14_DistributorIsGreedy ==
    Distributed =>
        LET items == fn.arg.items
            n == fn.arg.n
            out == fn.out
        IN /\ \A w \in 1..n : \A i \in DOMAIN out[w] :
                \A v \in 1..n :
                    LET k == out[w][i].name
                    IN /\ LoadBefore(out, w, k) <= LoadBefore(out, v, k)
                       /\ LoadBefore(out, w, k) = LoadBefore(out, v, k)
                              => w <= v
           /\ \A w \in 1..n : \A i, j \in DOMAIN out[w] :
                i < j => out[w][i].name < out[w][j].name
           /\ (ItemSizes(items) = <<9, 8, 5, 4, 2, 2>> /\ n = 3)
                => /\ ItemSizes(out[1]) = <<9, 2>>
                   /\ ItemSizes(out[2]) = <<8, 2>>
                   /\ ItemSizes(out[3]) = <<5, 4>>
           /\ (ItemSizes(items) = <<1000, 600, 400>> /\ n = 2)
                => /\ ItemSizes(out[1]) = <<1000>>
                   /\ ItemSizes(out[2]) = <<600, 400>>

\* C14 happens: the list of sizes [9, 8, 5, 4, 2, 2] was distributed over
\* three workers, the last item meeting two workers of equal load
C14_Witness ==
    /\ fn.op = "distribute"
    /\ ItemSizes(fn.arg.items) = <<9, 8, 5, 4, 2, 2>>
    /\ fn.arg.n = 3
    /\ ItemSizes(fn.out[1]) = <<9, 2>>

\* C15: with num_workers = min(parallel_jobs, len(items)), no worker of
\* _run_sync gets an empty partition unless there are no items
C15_NoEmptyPartition ==
    (fn.op = "run_sync" /\ fn.arg.items # << >>)
        => \A w \in 1..fn.arg.n : fn.out[w] # << >>

\* a name has been handed to _check_filename and normalize_filename
NameChecked == fn.op = "name"

\* the characters of PROBLEMATIC_CHARS
ForbiddenChars == {ProblematicChars[i].c : i \in DOMAIN ProblematicChars}

\* C16: normalizing a normalized name changes nothing: whenever
\* normalize_filename(s) returns, normalize_filename of its result returns
\* the same name, names ending in space-dot included.
C16_NormalizeIdempotent ==
    (NameChecked /\ fn.out.norm.ret) => fn.out.again = fn.out.norm

\* C17: normalize_filename(s) returns a name that is not empty, has none of
\* the forbidden characters and no control character, and is at most 255
\* bytes of UTF-8.
C17_NormalizedNameIsClean ==
    NameChecked =>
        /\ fn.out.norm.ret
        /\ fn.out.norm.name # << >>
        /\ CharsIn(fn.out.norm.name) \cap (ForbiddenChars \cup ControlChars) = {}
        /\ ByteLen(fn.out.norm.name) <= NameLimit

\* C18: a (non-empty) name in which _check_filename finds no issue is left
\* as it is by normalize_filename.
C18_NoIssueMeansUnchanged ==
    (NameChecked /\ fn.arg # << >> /\ fn.out.issue = "none") =>
        fn.out.norm = [ret |-> TRUE, name |-> fn.arg]

\* C19: _check_filename reports one issue per name, the first that applies
\* of: a forbidden character (with the tag of a forbidden character of the
\* name), a control character, a leading space, a trailing space, a trailing
\* dot (not for '.' and '..'), more than 255 bytes; and none when none
\* applies.  'report:final.txt' is colon, 'notes *draft' asterisk, a name
\* ending in a space trailing_space, 'ok.txt' has no issue.
C19_DetectionPriority ==
    NameChecked =>
        LET name == fn.arg
            tag == fn.out.issue
            forb == {i \in DOMAIN ProblematicChars :
                         \E k \in DOMAIN name : name[k].c = ProblematicChars[i].c}
            last == name[Len(name)]
        IN /\ IF forb # {}
                THEN \E i \in forb : tag = ProblematicChars[i].tag
              ELSE IF \E k \in DOMAIN name : name[k].c \in ControlChars
                THEN tag = "control_char"
              ELSE IF name # << >> /\ name[1].c = " "
                THEN tag = "leading_space"
              ELSE IF name # << >> /\ last.c = " "
                THEN tag = "trailing_space"
              ELSE IF /\ name # << >>
                      /\ last.c = "."
                      /\ ~(Len(name) = 1 /\ last.n \in {1, 2})
                THEN tag = "trailing_dot"
              ELSE IF ByteLen(name) > 255
                THEN tag = "too_long"
              ELSE tag = "none"
           /\ name = NameOf(<<"r", "e", "p", "o", "r", "t", ":", "f", "i",
                              "n", "a", "l", ".", "t", "x", "t">>)
                 => tag = "colon"
           /\ name = NameOf(<<"n", "o", "t", "e", "s", " ", "*", "d", "r",
                              "a", "f", "t">>)
                 => tag = "asterisk"
           /\ name = NameOf(<<"d", "r", "a", "f", "t", " ">>)
                 => tag = "trailing_space"
           /\ name = NameOf(<<"o", "k", ".", "t", "x", "t">>)
                 => tag = "none"

\* a name with a leading space, a control character and a colon is reported
\* for its colon
C19_Witness ==
    /\ NameChecked
    /\ fn.arg = <<[c |-> " ", n |-> 1], [c |-> "SOH", n |-> 1],
                  [c |-> ":", n |-> 1]>>
    /\ fn.out.issue = "colon"

\* the messages of a start_job call that returns failure
Rejections ==
    {"Job not found", "Job is already running", "Cannot start job",
     "Source path not accessible"}

\* C20: a start_job call that returns failure (job not found, already
\* running, mount unhealthy, source path not accessible) changes nothing
\* but its answer: the job's status, last_run_at and statistics, the
\* progress map, the tracking maps, the job table and the files on disk
\* stay as they were, no save_jobs call begins (startPc stays idle) and no
\* run task is spawned.
C20_RejectionChangesNothing ==
    [][(lastStart' # lastStart /\ lastStart' \in Rejections) =>
          /\ job' = job
          /\ prog' = prog /\ curProg' = curProg
          /\ trk' = trk /\ procLists' = procLists /\ child' = child
          /\ run' = run /\ wk' = wk /\ slot' = slot
          /\ startPc' = startPc /\ nStarts' = nStarts
          /\ jobs' = jobs /\ disk' = disk /\ save' = save]_vars

\* start_job has refused a second start of the running job
C20_Witness ==
    /\ lastStart = "Job is already running"
    /\ trk.running_processes
    /\ job.status = "running"
    /\ job.last_run_at = 1

\* the children of run r that exited with a code other than 0
FailedItems(r) == {c \in DOMAIN child : c[1] = r /\ child[c] = "rc1"}

\* no cancellation was ever in effect: no stop_job call was accepted and no
\* worker saw the mount die
NeverCancelled == stopAcc = {} /\ fatal = {}

\* C21: per-item failure: when a child has exited with a non-zero code and no
\* cancellation was in effect during the run, then once the run task has
\* ended: the worker of that child has recorded an error, every item of every
\* partition has been run to its exit, no worker was cancelled or stopped,
\* the job is `failed`, and last_run_message is "Failed: " and the first error
\* line of the first worker that has one.
C21_ItemFailureFailsRunOnly ==
    \A r \in Runs :
        (run[r].pc = "done" /\ NeverCancelled /\ FailedItems(r) # {}) =>
            /\ \A c \in FailedItems(r) : wk[<<r, c[2]>>].err
            /\ \A i \in 1..run[r].n : \A k \in 1..Len(run[r].parts[i]) :
                   /\ <<r, i, k>> \in DOMAIN child
                   /\ child[<<r, i, k>>] \in {"rc0", "rc1"}
            /\ \A i \in 1..run[r].n :
                   /\ wk[<<r, i>>].res = "ok"
                   /\ slot[<<r, i>>].status =
                          IF wk[<<r, i>>].err THEN "failed" ELSE "completed"
            /\ job.status = "failed"
            /\ job.last_run_status = "failed"
            /\ \E i \in 1..run[r].n :
                   /\ wk[<<r, i>>].err
                   /\ \A v \in 1..(i - 1) : ~wk[<<r, v>>].err
                   /\ \E what \in {"Failed to sync", "rsync: error"} :
                          /\ wk[<<r, i>>].first = what
                          /\ job.last_run_message =
                                 "Failed: [Worker " \o ToString(i - 1)
                                     \o "] " \o what

\* C21 happens: the only worker of a run had two items; the child of the
\* first exited with an error, the child of the second with 0
C21_Witness ==
    /\ run[1].pc = "done"
    /\ NeverCancelled
    /\ run[1].n = 1
    /\ <<1, 1, 2>> \in DOMAIN child
    /\ child[<<1, 1, 1>>] = "rc1"
    /\ child[<<1, 1, 2>>] = "rc0"
    /\ job.last_run_message = "Failed: [Worker 0] Failed to sync"

RECURSIVE SucceededFiles(_, _, _)
\* the files of the items 1..k of worker i of run r whose child exited with 0
SucceededFiles(r, i, k) ==
    IF k = 0 THEN 0
    ELSE (IF <<r, i, k>> \in DOMAIN child /\ child[<<r, i, k>>] = "rc0"
          THEN run[r].parts[i][k].files ELSE 0) + SucceededFiles(r, i, k - 1)

RECURSIVE SucceededBytes(_, _, _)
SucceededBytes(r, i, k) ==
    IF k = 0 THEN 0
    ELSE (IF <<r, i, k>> \in DOMAIN child /\ child[<<r, i, k>>] = "rc0"
          THEN run[r].parts[i][k].bytes ELSE 0) + SucceededBytes(r, i, k - 1)

RECURSIVE RunSucceededFiles(_, _)
\* the sum over the workers 1..n of run r
RunSucceededFiles(r, n) ==
    IF n = 0 THEN 0
    ELSE SucceededFiles(r, n, Len(run[r].parts[n]))
             + RunSucceededFiles(r, n - 1)

RECURSIVE RunSucceededBytes(_, _)
RunSucceededBytes(r, n) ==
    IF n = 0 THEN 0
    ELSE SucceededBytes(r, n, Len(run[r].parts[n]))
             + RunSucceededBytes(r, n - 1)

\* C22: the statistics of a finished run: files_synced and bytes_transferred
\* are the sums, over the workers, of the totals of the items whose child
\* exited with 0; a run in which no item succeeded reports 0 and 0.
C22_StatsCountSucceededItems ==
    \A r \in Runs :
        (run[r].pc = "done" /\ job.last_run_stats.run = r) =>
            /\ job.last_run_stats.files = RunSucceededFiles(r, run[r].n)
            /\ job.last_run_stats.bytes = RunSucceededBytes(r, run[r].n)

\* the worker itself found the mount dead: by the probe before an item or by
\* the error signature in the output of its child
DetectedFatal(s) == wk[s].first \in {"Mount unhealthy", "rsync: mount"}

\* C30: the terminal status of a worker that returned: `failed` for the
\* worker that itself detected the fatal mount error; otherwise `stopped`
\* only when a cancellation was requested in its run, and else `failed` with
\* at least one error line and `completed` with none.
C30_WorkerTerminalStatus ==
    \A s \in WorkerIds :
        (wk[s].pc = "done" /\ wk[s].res = "ok") =>
            LET st == slot[<<wk[s].sr, s[2]>>].status
            IN IF DetectedFatal(s) THEN st = "failed"
               ELSE IF st = "stopped" THEN s[1] \in stopAcc \cup fatal
               ELSE st = (IF wk[s].err THEN "failed" ELSE "completed")

\* the run task of r has been created and has not yet decided the terminal
\* status of the run
Undecided(r) ==
    run[r].pc \in {"created", "scan", "preflight", "gather", "logerrors"}

\* C29: once the cancellation flag is true it stays true for the workers and
\* the aggregation of the run: a step that removes it (or makes it false) is
\* the cleanup of the run task, taken when every worker of the run has
\* finished and the terminal status is decided, so no run is left undecided.
C29_FlagStaysUntilCleanup ==
    [][(Flag /\ trk'.stop_requested # "true") =>
           \A r \in Runs :
               /\ ~Undecided(r)'
               /\ \A i \in 1..run[r].n : wk[<<r, i>>].pc = "done"]_vars

\* the calls a handler was invoked with
Delivered(u) == {bus.log[u][x] : x \in 1..Len(bus.log[u])}

\* C25: subscriber failure isolation: no _notify_progress call ends by an
\* exception of a callback, and a call that has returned has invoked every
\* callback that was registered when it was made, whichever of them raised.
C25_SubscriberFailureIsolated ==
    \A c \in 1..Len(bus.calls) :
        /\ bus.calls[c].out # "raised"
        /\ bus.calls[c].out = "returned" =>
               \A u \in 1..bus.calls[c].cbs0 : c \in Delivered(u)

\* C25 happens: the first of two callbacks raised in a call, the second was
\* invoked with it all the same, and the call returned
C25_Witness ==
    \E c \in 1..Len(bus.calls) :
        /\ bus.calls[c].cbs0 = 2
        /\ 1 \in bus.calls[c].raisedBy
        /\ c \in Delivered(2)
        /\ bus.calls[c].out = "returned"

\* C26: delivery order: every subscriber is handed the publishes in the
\* order in which _notify_progress was called.
C26_DeliveredInCallOrder ==
    \A u \in 1..MaxSubscribers :
        \A x, y \in 1..Len(bus.log[u]) :
            x < y => bus.log[u][x] < bus.log[u][y]

\* C27: after shutdown() has returned no job has a live child or a worker
\* task that still runs, and no run task is left that will still start its
\* workers.
C27_ShutdownStopsEveryRun ==
    mgr.shut.pc = "returned" =>
        \A j \in Jobs :
            /\ mgr.job[j].child # "run"
            /\ mgr.job[j].worker \in {"none", "done", "cancelled"}
            /\ mgr.job[j].run # "preflight"

\* what the claim lists of a job: cancellation flag, child-process registry,
\* worker task list, progress record, job status
Entries(m, b) ==
    <<m.job[b].flag, m.job[b].procs, m.job[b].tasks, m.job[b].progress,
      m.job[b].status>>

\* C28: job isolation: a step of stop_job(A), of a worker or of the run task
\* of job A (its mount-failure cancellation and its cleanup included) leaves
\* the cancellation flag, the child registry, the task list, the progress
\* record and the status of every other job B as they were.
C28_JobIsolation ==
    [][\A b \in Jobs :
           b # mgr'.actor => Entries(mgr', b) = Entries(mgr, b)]_vars

\* C28 happens: stop_job(A) has just returned while job B is in its worker
\* phase with a live, registered child and its flag unset
C28_Witness ==
    /\ mgr.actor = "A"
    /\ mgr.job["A"].status = "stopped"
    /\ mgr.job["A"].flag = "absent"
    /\ mgr.job["B"].running
    /\ mgr.job["B"].flag = "false"
    /\ mgr.job["B"].procs = "child"
    /\ mgr.job["B"].child = "run"

\* a rename_file call is made in this step
RenameCalled == fi'.last.t # fi.last.t

\* C23: rename_file(issue_id, new_name): the directory changes only if the
\* issue exists, is pending, the given or else the suggested name is present,
\* differs from the original and is not in the directory, and then exactly by
\* the move; a call that returns success leaves the issue `renamed` with its
\* resolution time; when the preconditions hold and the move fails the issue
\* is `failed`; when a precondition fails the call fails and changes neither
\* the issues nor the directory.
C23_RenameFile ==
    [][RenameCalled =>
        LET i == fi'.last.id
            is == fi.issues[i]
            given == fi'.last.arg
            target == IF given # << >> THEN given ELSE is.suggested
            pre == /\ is.status = "pending"
                   /\ target # << >>
                   /\ target # is.filename
                   /\ target \notin fi.fs
        IN /\ fi'.fs # fi.fs =>
                 /\ pre
                 /\ fi'.fs = (fi.fs \ {is.filename}) \cup {target}
           /\ fi'.last.ok =>
                 /\ fi'.fs # fi.fs
                 /\ fi'.issues[i].status = "renamed"
                 /\ fi'.issues[i].resolved
           /\ (pre /\ ~fi'.last.ok) =>
                 /\ fi'.issues[i].status = "failed"
                 /\ fi'.fs = fi.fs
           /\ ~pre =>
                 /\ ~fi'.last.ok
                 /\ fi'.issues = fi.issues
                 /\ fi'.fs = fi.fs]_vars

\* C23 happens: a rename_file call has moved a file to the suggested name
\* and left its issue `renamed`
C23_Witness ==
    /\ fi.last.ok
    /\ fi.last.arg = << >>
    /\ fi.issues[fi.last.id].status = "renamed"
    /\ fi.issues[fi.last.id].resolved
    /\ fi.issues[fi.last.id].suggested \in fi.fs
    /\ fi.issues[fi.last.id].filename \notin fi.fs

\* C24: rename_all_pending(job_id): the call takes the issues that are
\* pending when it is made, those of job_id only when one is given; each of
\* its steps is one rename_file call with no name given for the next of them
\* and touches no other issue; when it returns every one of them has been
\* attempted once, total is their number, renamed + failed = total and there
\* is one error message per failed attempt.
C24_RenameAllPending ==
    [][fi'.batch # fi.batch =>
        LET b == fi'.batch
            pending == {i \in IssueIds :
                           /\ fi.issues[i].status = "pending"
                           /\ b.job # "none" => fi.issues[i].job = b.job}
        IN /\ fi.batch.pc = "idle" =>
                 /\ {b.snap[k] : k \in 1..Len(b.snap)} = pending
                 /\ Len(b.snap) = Cardinality(pending)
                 /\ b.attempts = << >>
                 /\ fi'.issues = fi.issues
                 /\ fi'.fs = fi.fs
           /\ fi.batch.pc = "running" =>
                 /\ RenameCalled
                 /\ fi'.last.arg = << >>
                 /\ b.attempts = Append(fi.batch.attempts, fi'.last.id)
                 /\ \A i \in IssueIds \ {fi'.last.id} :
                        fi'.issues[i] = fi.issues[i]
           /\ b.pc = "returned" =>
                 /\ b.attempts = b.snap
                 /\ b.total = Len(b.attempts)
                 /\ b.renamed + b.failed = b.total
                 /\ Len(b.errors) = b.failed]_vars

\* C24 happens: a rename_all_pending call over two issues has returned, one
\* of its attempts succeeded and one failed
C24_Witness ==
    /\ fi.batch.pc = "returned"
    /\ fi.batch.total = 2
    /\ fi.batch.renamed = 1
    /\ fi.batch.failed = 1

\* C31: no spawn after cancellation: a step in which a worker of run r
\* launches a child is taken in a state where the cancellation flag of the
\* job is False and no cancellation (stop_job or mount failure) has been
\* accepted for run r.
C31_NoSpawnAfterCancel ==
    [][\A c \in DOMAIN child' \ DOMAIN child :
           /\ trk.stop_requested = "false"
           /\ c[1] \notin stopAcc \cup fatal]_vars

\* C32: a stop request is accepted whenever the job is running: a stop_job
\* call that answers 'Job is not running' is not made in a state in which
\* job.status is `running` and the start_job call has returned.
C32_StopAcceptedWhileRunning ==
    [][(lastStop' = "Job is not running" /\ lastStop' # lastStop) =>
           ~(job.status = "running" /\ startPc = "idle")]_vars

\* C33: once delete_job(id) has returned true the job is absent from
\* self.jobs and from the persisted file, and no run task, worker or child
\* of the job is active.
C33_DeletedJobIsGone ==
    \A j \in Jobs :
        mgr.del[j] = "returned" =>
            /\ j \notin mgr.jobs
            /\ j \notin mgr.file
            /\ mgr.job[j].run \in {"none", "done"}
            /\ mgr.job[j].worker \in {"none", "done", "cancelled"}
            /\ mgr.job[j].child # "run"

\* every item of every partition of run r was run by a child that exited
\* with 0
AllTransferred(r) ==
    \A i \in 1..run[r].n : \A k \in 1..Len(run[r].parts[i]) :
        /\ <<r, i, k>> \in DOMAIN child
        /\ child[<<r, i, k>>] = "rc0"

\* C34: a run ends `completed` only if every item of every partition was
\* transferred by a child that exited with 0: the step of a run task that
\* writes job.status = completed is taken with all its items transferred.
C34_CompletedOnlyIfAllTransferred ==
    [][\A r \in Runs :
           (run[r].pc \in {"gather", "logerrors"} /\ run'[r].pc = "saving"
              /\ job'.status = "completed" /\ job.status # "completed")
               => AllTransferred(r)]_vars

\* a file whose whole job list load_jobs can read
UsableList(f) ==
    f.kind = "list" /\ \A k \in DOMAIN f.entries : f.entries[k].valid

\* the jobs of a file that is read to its end
JobsOf(f) == LoadEntries([i \in {} |-> 0], f.entries).jobs

\* C35: load_jobs is all-or-nothing per file: self.jobs after the load is
\* the job list of the jobs file when that file can be read whole, else the
\* job list of the backup when that can be read whole, else empty.
C35_LoadIsAllOrNothing ==
    fn.op = "load" =>
        fn.out = IF UsableList(fn.arg.jobs) THEN JobsOf(fn.arg.jobs)
                 ELSE IF UsableList(fn.arg.backup) THEN JobsOf(fn.arg.backup)
                 ELSE [i \in {} |-> 0]

\* C36: with save_jobs calls that overlap, the jobs file holds a whole
\* document at every moment and, once every call has returned, the document
\* of the job set that is in memory.
C36_OverlappingSavesKeepFileWhole ==
    /\ cs.jobs # 0
    /\ IsDocument(cs.data[cs.jobs])
    /\ (\A c \in Savers : cs.call[c].pc = "idle")
           => cs.data[cs.jobs] = TokensOf(cs.mem)

\* C37: normalize_filename terminates for every input: every call returns a
\* name, also for a name whose extension is as long as the byte limit or
\* longer.
C37_NormalizeTerminates ==
    fn.op = "name" => fn.out.norm.ret

\* C38: resolved issue statuses are final: no step changes the status or
\* the resolution mark of an issue that is `renamed`, `skipped` or `failed`.
C38_ResolvedStatusIsFinal ==
    [][\A i \in IssueIds :
           fi.issues[i].status \in {"renamed", "skipped", "failed"} =>
               /\ fi'.issues[i].status = fi.issues[i].status
               /\ fi'.issues[i].resolved = fi.issues[i].resolved]_vars

C40_NestedIssuesBothRenamed ==
    (/\ nest.pc = "returned"
     /\ Len(nest.issues) = 2
     /\ ~nest.denied
     /\ \A k \in DOMAIN nest.issues : nest.issues[k].status # "pending")
        => \A k \in DOMAIN nest.issues : nest.issues[k].status = "renamed"

====
